---- MODULE Spec2Model ----
(***************************************************************************)
(* A model of the log preprocessing pipeline of model-drift-detection:     *)
(*   src/src/config/preprocessing_config.py   PreprocessingConfig          *)
(*   src/src/preprocessing/log_preprocessor.py LogPreprocessor             *)
(*                                                                         *)
(* Strings are sequences of one-character strings, durations are whole     *)
(* seconds, timestamps are whole seconds, tables are sequences of rows.    *)
(***************************************************************************)
EXTENDS Integers, Sequences, FiniteSets, TLC

VARIABLES
    args,           \* keyword arguments handed to PreprocessingConfig(...)
    config,         \* the fields of the PreprocessingConfig instance
    built,          \* "no" before construction, then "ok" or "failed"
    op,             \* the operation that ran last
    err,            \* the exception the last operation raised, or NoError
    inp,            \* the argument of the last operation
    ret,            \* the value the last operation returned
    feature_stats,  \* LogPreprocessor.feature_stats
    prev_stats,     \* feature_stats as it was before the last operation
    calls,          \* how many operations have run on the LogPreprocessor
    table,          \* the caller's DataFrame handed to the last operation, as
                    \* it is after the call
    files           \* the files written by save_feature_stats, by path

vars == <<args, config, built, op, err, inp, ret, feature_stats, prev_stats, calls,
          table, files>>

(***************************************************************************)
(* Bounds of the model.                                                    *)
(***************************************************************************)
\* longest window_size / window_stride string enumerated letter by letter
MaxLen == 4
\* largest min_logs_per_window / max_logs_per_window argument tried
MaxCount == 2
\* most operations run on one LogPreprocessor
MaxCalls == 2
\* most rows of a table handed to create_time_windows
MaxRows == 2
\* most lines of a list handed to parse_logs
MaxLines == 3
\* most rows of a one-column table handed to normalize_features
MaxNormRows == 2

(***************************************************************************)
(* Characters and strings.                                                 *)
(***************************************************************************)
Digits == {"0", "1", "2", "3", "4", "5", "6", "7", "8", "9"}

LowerSeq ==
    <<"a", "b", "c", "d", "e", "f", "g", "h", "i", "j", "k", "l", "m",
      "n", "o", "p", "q", "r", "s", "t", "u", "v", "w", "x", "y", "z">>

UpperSeq ==
    <<"A", "B", "C", "D", "E", "F", "G", "H", "I", "J", "K", "L", "M",
      "N", "O", "P", "Q", "R", "S", "T", "U", "V", "W", "X", "Y", "Z">>

LowerLetters == {LowerSeq[i] : i \in 1..26}

UpperLetters == {UpperSeq[i] : i \in 1..26}

\* str.lower() on one character
LowerChar(c) ==
    IF c \in UpperLetters THEN LowerSeq[CHOOSE i \in 1..26 : UpperSeq[i] = c] ELSE c

\* str.lower()
Lower(s) == [i \in 1..Len(s) |-> LowerChar(s[i])]

\* the regex class [a-zA-Z]
Letters == LowerLetters \cup UpperLetters

\* int(s) for a string of decimal digits
RECURSIVE IntOf(_)
IntOf(s) ==
    LET DigitVal(c) ==
            CASE c = "0" -> 0 [] c = "1" -> 1 [] c = "2" -> 2 [] c = "3" -> 3
              [] c = "4" -> 4 [] c = "5" -> 5 [] c = "6" -> 6 [] c = "7" -> 7
              [] c = "8" -> 8 [] c = "9" -> 9
    IN  IF s = <<>> THEN 0
        ELSE 10 * IntOf(SubSeq(s, 1, Len(s) - 1)) + DigitVal(s[Len(s)])

\* length of the longest run of characters of class cls that starts at s[from]
RECURSIVE RunLen(_, _, _)
RunLen(s, from, cls) ==
    IF from > Len(s) \/ s[from] \notin cls THEN 0
    ELSE 1 + RunLen(s, from + 1, cls)

\* Python's None where a string is expected (no string of characters equals it)
NoneStr == <<"None">>

\* Python's None where an integer is expected; Some(n) is the integer n
NoneInt == <<>>

Some(n) == <<n>>

NoError == "none"

\* pandas' missing value, and the result of dividing by zero (see Numbers)
NaN == <<0, 0, 1>>

DivZero == <<1, 0, 1>>

\* the empty feature_stats dictionary
NoStats == [c \in {} |-> NaN]

\* no table: what a call that raised returned
NoTable == [index |-> <<>>, columns |-> <<>>]

\* the paths handed to save_feature_stats and load_feature_stats, none of
\* them written yet
NoFiles == [path \in {"stats.json"} |-> [exists |-> FALSE, data |-> NoStats]]

(***************************************************************************)
(* PreprocessingConfig._parse_time_str                                     *)
(***************************************************************************)
\* re.match(r'(\d+)([a-zA-Z]+)', time_str): anchored at the start only; the
\* greedy digit run must be followed by at least one letter.  The result is
\* <<matched, value text, unit text>>.
TimeStrMatch(s) ==
    LET nd == RunLen(s, 1, Digits)
        nl == RunLen(s, nd + 1, Letters)
    IN  IF nd >= 1 /\ nl >= 1
        THEN [matched |-> TRUE,
              value |-> SubSeq(s, 1, nd),
              unit |-> SubSeq(s, nd + 1, nd + nl)]
        ELSE [matched |-> FALSE, value |-> <<>>, unit |-> <<>>]

\* unit_map: unit text -> keyword of pd.Timedelta
unit_map ==
    [u \in {<<"s">>, <<"s", "e", "c">>, <<"m">>, <<"m", "i", "n">>,
            <<"h">>, <<"h", "r">>, <<"d">>, <<"d", "a", "y">>} |->
        CASE u = <<"s">> -> "seconds"
          [] u = <<"s", "e", "c">> -> "seconds"
          [] u = <<"m">> -> "minutes"
          [] u = <<"m", "i", "n">> -> "minutes"
          [] u = <<"h">> -> "hours"
          [] u = <<"h", "r">> -> "hours"
          [] u = <<"d">> -> "days"
          [] u = <<"d", "a", "y">> -> "days"]

\* Timedelta with hours counted as minutes
TimedeltaHoursAsMinutes(keyword, value) ==
    CASE keyword = "seconds" -> value
      [] keyword = "minutes" -> 60 * value
      [] keyword = "hours" -> 60 * value
      [] keyword = "days" -> 86400 * value

\* pd.Timedelta(**{keyword: value}), in seconds
Timedelta(keyword, value) ==
    CASE keyword = "seconds" -> value
      [] keyword = "minutes" -> 60 * value
      [] keyword = "hours" -> 3600 * value
      [] keyword = "days" -> 86400 * value

\* the result is [exc |-> NoError, delta |-> seconds] or
\* [exc |-> "ValueError", ...]
_parse_time_str(time_str) ==
    IF time_str = NoneStr
    THEN [exc |-> "ValueError", msg |-> "Time string must be a string", delta |-> 0]
    ELSE LET m == TimeStrMatch(time_str)
         IN  IF ~m.matched
             THEN [exc |-> "ValueError", msg |-> "Invalid time format", delta |-> 0]
             ELSE IF Lower(m.unit) \notin DOMAIN unit_map
                  THEN [exc |-> "ValueError", msg |-> "Invalid time unit", delta |-> 0]
                  ELSE [exc |-> NoError, msg |-> "",
                        delta |-> Timedelta(unit_map[Lower(m.unit)], IntOf(m.value))]

(***************************************************************************)
(* PreprocessingConfig: fields, defaults, validation.                      *)
(***************************************************************************)
AllowedFeatures ==
    {"log_length", "word_count", "numeric_count", "special_char_count",
     "uppercase_count", "lowercase_count"}

\* re.compile(pattern) succeeds: of the patterns tried, an unterminated
\* character set, an unclosed group and a repeat of nothing raise re.error
RegexCompiles(pattern) == pattern \notin {"[", "(", "*"}

\* a dict: its items in insertion order, each one <<name, pattern>>
Dict(items) == [dict |-> TRUE, items |-> items]

\* the dataclass field defaults
DefaultArgs ==
    [timestamp_format |-> "%Y-%m-%d %H:%M:%S",
     apache_timestamp_format |-> "%a %b %d %H:%M:%S %Y",
     window_size |-> <<"5", "m", "i", "n">>,
     basic_features |-> <<"log_length", "word_count", "numeric_count",
                          "special_char_count", "uppercase_count",
                          "lowercase_count">>,
     pattern_features |-> TRUE,
     custom_patterns |->
         Dict(<<<<"error", "error|exception|fail|failed|failure">>,
                <<"warning", "warn|warning|high|critical">>,
                <<"ip_address", "\\b\\d{1,3}\\.\\d{1,3}\\.\\d{1,3}\\.\\d{1,3}\\b">>,
                <<"metrics", "\\d+%|\\d+(?:\\.\\d+)?(?:GB|MB|KB|ms|sec)">>,
                <<"user", "user\\s*\\w+|username|userid">>>>),
     normalization_method |-> "minmax",
     min_logs_per_window |-> 1,
     max_logs_per_window |-> NoneInt,
     window_stride |-> NoneStr]

\* _validate_window_size
_validate_window_size(c) ==
    IF _parse_time_str(c.window_size).exc = "ValueError"
    THEN "Invalid window_size format"
    ELSE NoError

\* _validate_normalization_method
_validate_normalization_method(c) ==
    IF c.normalization_method \notin {"minmax", "zscore"}
    THEN "Invalid normalization_method"
    ELSE NoError

\* _validate_patterns with the error naming the first key of the map
_validate_patterns_first_key(c) ==
    IF ~c.custom_patterns.dict THEN "custom_patterns must be a dictionary"
    ELSE LET items == c.custom_patterns.items
             bad == {i \in 1..Len(items) : ~RegexCompiles(items[i][2])}
         IN  IF bad = {} THEN NoError
             ELSE "Invalid regex pattern for " \o items[1][1] \o ": "
                  \o items[1][2]

\* _validate_patterns: the loop stops at the first pattern that does not
\* compile
_validate_patterns(c) ==
    IF ~c.custom_patterns.dict THEN "custom_patterns must be a dictionary"
    ELSE LET items == c.custom_patterns.items
             bad == {i \in 1..Len(items) : ~RegexCompiles(items[i][2])}
             first == CHOOSE i \in bad : \A j \in bad : i <= j
         IN  IF bad = {} THEN NoError
             ELSE "Invalid regex pattern for " \o items[first][1] \o ": "
                  \o items[first][2]

\* _validate_features
_validate_features(c) ==
    LET invalid_features ==
            {c.basic_features[i] : i \in 1..Len(c.basic_features)} \ AllowedFeatures
    IN  IF invalid_features # {} THEN "Invalid basic features" ELSE NoError

\* _validate_window_params without the comparison of max with min
_validate_window_params_no_max(c) ==
    IF c.min_logs_per_window < 1
    THEN "min_logs_per_window must be at least 1"
    ELSE IF c.window_stride # NoneStr
            /\ _parse_time_str(c.window_stride).exc = "ValueError"
         THEN "Invalid window_stride format"
         ELSE NoError

\* _validate_window_params
_validate_window_params(c) ==
    IF c.min_logs_per_window < 1
    THEN "min_logs_per_window must be at least 1"
    ELSE IF c.max_logs_per_window # NoneInt
            /\ c.max_logs_per_window[1] < c.min_logs_per_window
         THEN "max_logs_per_window must be greater than or equal to min_logs_per_window"
         ELSE IF c.window_stride # NoneStr
                 /\ _parse_time_str(c.window_stride).exc = "ValueError"
              THEN "Invalid window_stride format"
              ELSE NoError

\* __post_init__: the validators in order; the first error is the one raised
__post_init__(c) ==
    LET checks == <<_validate_window_size(c), _validate_normalization_method(c),
                    _validate_patterns(c), _validate_features(c),
                    _validate_window_params(c)>>
        failed == {i \in 1..Len(checks) : checks[i] # NoError}
    IN  IF failed = {} THEN NoError
        ELSE checks[CHOOSE i \in failed : \A j \in failed : i <= j]

\* no instance: the constructor raised, or has not run
NoConfig == [none |-> TRUE]

\* get_window_timedelta
get_window_timedelta(c) == _parse_time_str(c.window_size)

\* get_stride_timedelta
get_stride_timedelta(c) ==
    IF c.window_stride = NoneStr THEN get_window_timedelta(c)
    ELSE _parse_time_str(c.window_stride)

\* to_dict without the Apache format
to_dict_no_apache_format(c) ==
    [timestamp_format |-> c.timestamp_format,
     window_size |-> c.window_size,
     basic_features |-> c.basic_features,
     pattern_features |-> c.pattern_features,
     custom_patterns |-> c.custom_patterns,
     normalization_method |-> c.normalization_method,
     min_logs_per_window |-> c.min_logs_per_window,
     max_logs_per_window |-> c.max_logs_per_window,
     window_stride |-> c.window_stride]

\* to_dict: a map of the ten fields
to_dict(c) ==
    [timestamp_format |-> c.timestamp_format,
     apache_timestamp_format |-> c.apache_timestamp_format,
     window_size |-> c.window_size,
     basic_features |-> c.basic_features,
     pattern_features |-> c.pattern_features,
     custom_patterns |-> c.custom_patterns,
     normalization_method |-> c.normalization_method,
     min_logs_per_window |-> c.min_logs_per_window,
     max_logs_per_window |-> c.max_logs_per_window,
     window_stride |-> c.window_stride]

\* from_dict: cls(**config_dict); a key that is no field is a TypeError, a
\* field without a key takes its default, and __post_init__ validates
from_dict(config_dict) ==
    LET kwargs == [k \in DOMAIN DefaultArgs |->
                     IF k \in DOMAIN config_dict THEN config_dict[k]
                     ELSE DefaultArgs[k]]
    IN  IF DOMAIN config_dict \ DOMAIN DefaultArgs # {}
        THEN [exc |-> "TypeError", msg |-> "unexpected keyword argument",
              config |-> NoConfig]
        ELSE IF __post_init__(kwargs) # NoError
             THEN [exc |-> "ValueError", msg |-> __post_init__(kwargs),
                   config |-> NoConfig]
             ELSE [exc |-> NoError, msg |-> NoError, config |-> kwargs]

(***************************************************************************)
(* Arguments tried for the constructor.                                    *)
(***************************************************************************)
\* every string of length at most MaxLen over characters of each kind the
\* duration regex tells apart
TimeStrings ==
    UNION {[1..k -> {"0", "5", "m", "i", "n", "H", "-", "."}] : k \in 0..MaxLen}

\* the duration strings of the tests and of the specification's examples,
\* one string per unit alias and letter case, and strings with a valid prefix
ExampleStrings ==
    LET ValidExamples ==
            {<<"5", "m", "i", "n">>, <<"1", "h">>, <<"2", "4", "h">>, <<"1", "d">>,
             <<"6", "0", "s">>, <<"1", "m", "i", "n">>, <<"2", "m", "i", "n">>,
             <<"2", "h">>, <<"3", "0", "s">>, <<"1", "0", "m", "i", "n">>,
             <<"3", "0", "m", "i", "n">>}
        InvalidExamples ==
            {<<"i", "n", "v", "a", "l", "i", "d">>, <<"5">>, <<"m", "i", "n", "5">>,
             <<"-", "5", "m", "i", "n">>, <<"5", ".", "5", "m", "i", "n">>,
             <<"5", "m", "i", "n", "s">>, <<"5", "x">>, <<"1", "x">>,
             <<"m", "i", "n">>, <<"h", "o", "u", "r">>, <<>>}
        AliasExamples ==
            {<<"1", "s">>, <<"1", "s", "e", "c">>, <<"1", "m">>, <<"1", "h", "r">>,
             <<"1", "d", "a", "y">>, <<"5", "M", "I", "N">>, <<"1", "D">>,
             <<"1", "H", "r">>, <<"5", "m", "i", "n", "5">>, <<"0", "m", "i", "n">>,
             <<"5", "h", "-">>}
    IN  ValidExamples \cup InvalidExamples \cup AliasExamples

\* the keyword arguments tried: window_size and window_stride vary over every
\* string while the rest keeps its default, and the other validated fields
\* vary together
ConfigArgs ==
    {[DefaultArgs EXCEPT !.window_size = s] :
        s \in TimeStrings \cup ExampleStrings \cup {NoneStr}}
    \cup {[DefaultArgs EXCEPT !.window_stride = s] :
            s \in TimeStrings \cup ExampleStrings \cup {NoneStr}}
    \cup {[DefaultArgs EXCEPT !.window_size = ws, !.window_stride = st,
                              !.normalization_method = nm, !.basic_features = bf,
                              !.custom_patterns = cp,
                              !.min_logs_per_window = mn, !.max_logs_per_window = mx] :
            ws \in {<<"5", "m", "i", "n">>, <<"1", "h">>, <<"5", "x">>},
            st \in {NoneStr, <<"3", "0", "m", "i", "n">>,
                    <<"i", "n", "v", "a", "l", "i", "d">>},
            nm \in {"minmax", "zscore", "invalid"},
            bf \in {DefaultArgs.basic_features, <<>>, <<"log_length", "word_count">>,
                    <<"log_length", "invalid_feature">>},
            cp \in {DefaultArgs.custom_patterns, Dict(<<<<"test", "[">>>>)},
            mn \in 0..MaxCount,
            mx \in {NoneInt} \cup {Some(n) : n \in 0..MaxCount}}
    \cup {[DefaultArgs EXCEPT !.window_size = ws, !.normalization_method = nm,
                              !.pattern_features = pf, !.custom_patterns = cp] :
            ws \in {<<"5", "m", "i", "n">>, <<"5", "x">>},
            nm \in {"minmax", "invalid"},
            pf \in BOOLEAN,
            cp \in {Dict(<<>>), [dict |-> FALSE, items |-> <<>>]}
                   \cup {Dict(<<<<"test1", p1>>, <<"test2", p2>>, <<"test3", p3>>>>) :
                           p1 \in {"\\d+", "("}, p2 \in {"[a-z]+", "["},
                           p3 \in {"\\b\\w+\\b", "*"}}}
    \cup {[DefaultArgs EXCEPT !.timestamp_format = tf,
                              !.apache_timestamp_format = af,
                              !.window_size = ws, !.window_stride = st] :
            tf \in {DefaultArgs.timestamp_format, "%Y-%m-%d %H:%M"},
            af \in {DefaultArgs.apache_timestamp_format, "%d/%b/%Y:%H:%M:%S"},
            ws \in {<<"1", "h">>, <<"5", "x">>},
            st \in {NoneStr, <<"3", "0", "m", "i", "n">>}}

(***************************************************************************)
(* Constructing a configuration and reading its accessors.                 *)
(***************************************************************************)
InitConfig ==
    /\ args \in ConfigArgs
    /\ config = NoConfig
    /\ built = "no"
    /\ op = "none"
    /\ err = NoError
    /\ inp = "none"
    /\ ret = "none"
    /\ feature_stats = NoStats
    /\ prev_stats = NoStats
    /\ calls = 0
    /\ table = NoTable
    /\ files = NoFiles

\* PreprocessingConfig(**args)
Construct ==
    /\ built = "no"
    /\ LET e == __post_init__(args)
       IN  /\ err' = e
           /\ built' = IF e = NoError THEN "ok" ELSE "failed"
           /\ config' = IF e = NoError THEN args ELSE NoConfig
    /\ op' = "construct"
    /\ ret' = "none"
    /\ UNCHANGED <<args, inp, feature_stats, prev_stats, calls, table, files>>

\* config.get_window_timedelta()
GetWindowTimedelta ==
    /\ built = "ok"
    /\ LET r == get_window_timedelta(config)
       IN  /\ err' = r.exc
           /\ ret' = IF r.exc = NoError THEN r.delta ELSE "none"
    /\ op' = "get_window_timedelta"
    /\ UNCHANGED <<args, config, built, inp, feature_stats, prev_stats, calls, table, files>>

\* config.get_stride_timedelta()
GetStrideTimedelta ==
    /\ built = "ok"
    /\ LET r == get_stride_timedelta(config)
       IN  /\ err' = r.exc
           /\ ret' = IF r.exc = NoError THEN r.delta ELSE "none"
    /\ op' = "get_stride_timedelta"
    /\ UNCHANGED <<args, config, built, inp, feature_stats, prev_stats, calls, table, files>>

\* config.to_dict()
ToDict ==
    /\ built = "ok"
    /\ ret' = to_dict(config)
    /\ err' = NoError
    /\ op' = "to_dict"
    /\ UNCHANGED <<args, config, built, inp, feature_stats, prev_stats, calls, table, files>>

\* PreprocessingConfig.from_dict(config_dict): a classmethod, so the instance
\* constructed directly and the error of its construction stay as they are;
\* the new instance or the exception is the result
FromDict(config_dict) ==
    /\ built # "no"
    /\ inp' = config_dict
    /\ ret' = from_dict(config_dict)
    /\ op' = "from_dict"
    /\ UNCHANGED <<args, config, built, err, feature_stats, prev_stats, calls, table, files>>

\* the maps given to from_dict: the one to_dict has just returned, the
\* constructor's arguments as a map, that map without a key, and with a key
\* that is no field
NextConfig ==
    \/ Construct
    \/ GetWindowTimedelta
    \/ GetStrideTimedelta
    \/ ToDict
    \/ op = "to_dict" /\ FromDict(ret)
    \/ op = "construct" /\ FromDict(args)
    \/ op = "construct"
       /\ FromDict([k \in DOMAIN args \ {"apache_timestamp_format"} |-> args[k]])
    \/ op = "construct"
       /\ FromDict([k \in DOMAIN args \cup {"version"} |->
                      IF k = "version" THEN 1 ELSE args[k]])

SpecConfig == InitConfig /\ [][NextConfig]_vars

(***************************************************************************)
(* Numbers.  A number is <<n, d, r>>: the rational n/d (d > 0) when r = 1, *)
(* sign(n) * sqrt(|n|/d) when r = 2 (a standard deviation, and a value     *)
(* divided by one).  d = 0 marks the two values that are no number: NaN    *)
(* (pandas' missing value) and DivZero (the result of dividing by zero).   *)
(***************************************************************************)
Abs(x) == IF x < 0 THEN -x ELSE x

RECURSIVE GCD(_, _)
GCD(a, b) == IF b = 0 THEN a ELSE GCD(b, a % b)

\* n/d in lowest terms with a positive denominator, as a number of root r
Reduced(n, d, r) ==
    LET g == GCD(Abs(n), Abs(d))
        s == IF d < 0 THEN -1 ELSE 1
    IN  <<(s * n) \div g, (s * d) \div g, r>>

Num(k) == <<k, 1, 1>>

Zero == Num(0)

IsNumber(v) == v[2] # 0

\* the square of v with the sign of v, as <<n, d>>
SignedSquare(v) ==
    IF v[3] = 2 THEN <<v[1], v[2]>>
    ELSE <<(IF v[1] < 0 THEN -1 ELSE 1) * v[1] * v[1], v[2] * v[2]>>

\* a < b; every comparison with NaN is false
Less(a, b) ==
    /\ IsNumber(a) /\ IsNumber(b)
    /\ IF a[3] = 1 /\ b[3] = 1
       THEN a[1] * b[2] < b[1] * a[2]
       ELSE SignedSquare(a)[1] * SignedSquare(b)[2]
                < SignedSquare(b)[1] * SignedSquare(a)[2]

\* what an operation on a or b yields when one of them is no number
NoNumber(a, b) == IF a = DivZero \/ b = DivZero THEN DivZero ELSE NaN

\* the number whose signed square is n/d: a rational when |n|/d is the
\* square of one, a square root otherwise
FromSquare(n, d) ==
    LET RECURSIVE RootBetween(_, _, _)
        RootBetween(k, lo, hi) ==
            IF lo >= hi THEN lo
            ELSE LET mid == (lo + hi + 1) \div 2
                 IN  IF mid * mid <= k THEN RootBetween(k, mid, hi)
                     ELSE RootBetween(k, lo, mid - 1)
        Root(q, rn, rd) ==
            IF rn * rn = Abs(q[1]) /\ rd * rd = q[2]
            THEN <<(IF q[1] < 0 THEN -1 ELSE 1) * rn, rd, 1>>
            ELSE q
        Roots(q) ==
            Root(q, RootBetween(Abs(q[1]), 0, IF Abs(q[1]) < 46340 THEN Abs(q[1]) ELSE 46340),
                 RootBetween(q[2], 0, IF q[2] < 46340 THEN q[2] ELSE 46340))
    IN  Roots(Reduced(n, d, 2))

\* a + s * b (s is 1 or -1) where a or b is a square root.  With A and B
\* the squares of a and b, the square of the sum is A + B +- 2 * sqrt(A * B),
\* a rational when sqrt(A * B) is one, that is when a and b are multiples
\* of one root; the model has no form for any other sum
RootSum(a, b, s) ==
    LET Sum(sa, sb, cross) ==
            CASE cross[3] = 1 ->
                LET sign == IF Abs(sa[1]) * sb[2] >= Abs(sb[1]) * sa[2]
                            THEN (IF sa[1] < 0 THEN -1 ELSE 1)
                            ELSE s * (IF sb[1] < 0 THEN -1 ELSE 1)
                    sigma == (IF sa[1] < 0 THEN -1 ELSE 1) * (IF sb[1] < 0 THEN -1 ELSE 1) * s
                IN  Reduced(sign * (Abs(sa[1]) * sb[2] * cross[2]
                                      + Abs(sb[1]) * sa[2] * cross[2]
                                      + 2 * sigma * cross[1] * sa[2] * sb[2]),
                            sa[2] * sb[2] * cross[2], 2)
    IN  Sum(SignedSquare(a), SignedSquare(b),
            FromSquare(Abs(SignedSquare(a)[1]) * Abs(SignedSquare(b)[1]),
                       SignedSquare(a)[2] * SignedSquare(b)[2]))

RAdd(a, b) ==
    IF ~IsNumber(a) \/ ~IsNumber(b) THEN NoNumber(a, b)
    ELSE IF a[3] = 2 \/ b[3] = 2 THEN RootSum(a, b, 1)
    ELSE Reduced(a[1] * b[2] + b[1] * a[2], a[2] * b[2], 1)

RSub(a, b) ==
    IF ~IsNumber(a) \/ ~IsNumber(b) THEN NoNumber(a, b)
    ELSE IF a[3] = 2 \/ b[3] = 2 THEN RootSum(a, b, -1)
    ELSE Reduced(a[1] * b[2] - b[1] * a[2], a[2] * b[2], 1)

RMul(a, b) ==
    IF ~IsNumber(a) \/ ~IsNumber(b) THEN NoNumber(a, b)
    ELSE IF a[3] = 2 \/ b[3] = 2
    THEN FromSquare(SignedSquare(a)[1] * SignedSquare(b)[1],
                    SignedSquare(a)[2] * SignedSquare(b)[2])
    ELSE Reduced(a[1] * b[1], a[2] * b[2], 1)

\* a / b for rationals and square roots
RDiv(a, b) ==
    IF ~IsNumber(a) \/ ~IsNumber(b) THEN NoNumber(a, b)
    ELSE IF b[1] = 0 THEN DivZero
    ELSE IF b[3] = 1 /\ a[3] = 2
    THEN Reduced((IF b[1] < 0 THEN -1 ELSE 1) * a[1] * b[2] * b[2], a[2] * b[1] * b[1], 2)
    ELSE IF b[3] = 1 THEN Reduced(a[1] * b[2], a[2] * b[1], 1)
    ELSE Reduced(SignedSquare(a)[1] * b[2], SignedSquare(a)[2] * b[1], 2)

\* the square root of a rational v >= 0
Sqrt(v) == IF ~IsNumber(v) THEN v ELSE <<v[1], v[2], 2>>

RECURSIVE SumSeq(_)
SumSeq(s) == IF s = <<>> THEN Zero ELSE RAdd(Head(s), SumSeq(Tail(s)))

(***************************************************************************)
(* pandas column reductions; each skips the missing values.                *)
(***************************************************************************)
Present(vals) == SelectSeq(vals, IsNumber)

\* Series.min()
ColMin(vals) ==
    LET p == Present(vals)
    IN  IF p = <<>> THEN NaN
        ELSE p[CHOOSE i \in 1..Len(p) : \A j \in 1..Len(p) : ~Less(p[j], p[i])]

\* Series.max()
ColMax(vals) ==
    LET p == Present(vals)
    IN  IF p = <<>> THEN NaN
        ELSE p[CHOOSE i \in 1..Len(p) : \A j \in 1..Len(p) : ~Less(p[i], p[j])]

\* Series.mean()
ColMean(vals) ==
    LET p == Present(vals)
    IN  IF p = <<>> THEN NaN ELSE RDiv(SumSeq(p), Num(Len(p)))

\* Series.std(): the sample standard deviation (ddof = 1), NaN below two values
ColStd(vals) ==
    LET p == Present(vals)
        m == ColMean(vals)
        sq == [i \in 1..Len(p) |-> RMul(RSub(p[i], m), RSub(p[i], m))]
    IN  IF Len(p) < 2 THEN NaN
        ELSE Sqrt(RDiv(SumSeq(sq), Num(Len(p) - 1)))

(***************************************************************************)
(* LogPreprocessor: normalization.  A table is a sequence of columns       *)
(* [name, vals]; feature_stats maps a column name to its statistics.       *)
(***************************************************************************)
\* self.feature_stats[column] = entry
PutStats(stats, column, entry) ==
    [c \in DOMAIN stats \cup {column} |-> IF c = column THEN entry ELSE stats[c]]

\* MinMaxStats with the cache test dropped: the statistics follow every table
MinMaxStatsRecomputed(stats, column, vals) ==
    PutStats(stats, column, [min |-> ColMin(vals), max |-> ColMax(vals)])

\* lines 227-231: the statistics are computed only for a column not cached yet
MinMaxStats(stats, column, vals) ==
    IF column \notin DOMAIN stats
    THEN PutStats(stats, column, [min |-> ColMin(vals), max |-> ColMax(vals)])
    ELSE stats

\* MinMaxScale dividing by max_val instead of the range
MinMaxScaleByMax(vals, min_val, max_val) ==
    IF Less(min_val, max_val)
    THEN [k \in 1..Len(vals) |-> RDiv(RSub(vals[k], min_val), max_val)]
    ELSE [k \in 1..Len(vals) |-> Zero]

\* lines 236-239: the column rescaled, or 0 in every row for a constant feature
MinMaxScale(vals, min_val, max_val) ==
    IF Less(min_val, max_val)
    THEN [k \in 1..Len(vals) |-> RDiv(RSub(vals[k], min_val), RSub(max_val, min_val))]
    ELSE [k \in 1..Len(vals) |-> Zero]

\* the loop of _minmax_normalize, from column i on; a statistic missing from a
\* cached entry raises KeyError and leaves the entries written so far
RECURSIVE MinMaxColumns(_, _, _, _)
MinMaxColumns(df, i, stats, normalized_df) ==
    IF i > Len(df)
    THEN [stats |-> stats, out |-> normalized_df, exc |-> NoError]
    ELSE LET column == df[i].name
             stats1 == MinMaxStats(stats, column, df[i].vals)
             entry == stats1[column]
         IN  IF "min" \notin DOMAIN entry \/ "max" \notin DOMAIN entry
             THEN [stats |-> stats1, out |-> <<>>, exc |-> "KeyError"]
             ELSE MinMaxColumns(df, i + 1, stats1,
                      Append(normalized_df,
                             [name |-> column,
                              vals |-> MinMaxScale(df[i].vals, entry.min, entry.max)]))

\* _minmax_normalize
_minmax_normalize(df, stats) == MinMaxColumns(df, 1, stats, <<>>)

\* lines 248-252
ZScoreStats(stats, column, vals) ==
    IF column \notin DOMAIN stats
    THEN PutStats(stats, column, [mean |-> ColMean(vals), std |-> ColStd(vals)])
    ELSE stats

\* ZScoreScale with the guard std_val >= 0 in place of std_val > 0
ZScoreScaleWeakGuard(vals, mean_val, std_val) ==
    IF ~Less(std_val, Zero) /\ IsNumber(std_val)
    THEN [k \in 1..Len(vals) |-> RDiv(RSub(vals[k], mean_val), std_val)]
    ELSE [k \in 1..Len(vals) |-> Zero]

\* lines 257-260
ZScoreScale(vals, mean_val, std_val) ==
    IF Less(Zero, std_val)
    THEN [k \in 1..Len(vals) |-> RDiv(RSub(vals[k], mean_val), std_val)]
    ELSE [k \in 1..Len(vals) |-> Zero]

\* the loop of _zscore_normalize, from column i on
RECURSIVE ZScoreColumns(_, _, _, _)
ZScoreColumns(df, i, stats, normalized_df) ==
    IF i > Len(df)
    THEN [stats |-> stats, out |-> normalized_df, exc |-> NoError]
    ELSE LET column == df[i].name
             stats1 == ZScoreStats(stats, column, df[i].vals)
             entry == stats1[column]
         IN  IF "mean" \notin DOMAIN entry \/ "std" \notin DOMAIN entry
             THEN [stats |-> stats1, out |-> <<>>, exc |-> "KeyError"]
             ELSE ZScoreColumns(df, i + 1, stats1,
                      Append(normalized_df,
                             [name |-> column,
                              vals |-> ZScoreScale(df[i].vals, entry.mean, entry.std)]))

\* _zscore_normalize
_zscore_normalize(df, stats) == ZScoreColumns(df, 1, stats, <<>>)

\* normalize_features
normalize_features(df, c, stats) ==
    IF c.normalization_method = "minmax" THEN _minmax_normalize(df, stats)
    ELSE IF c.normalization_method = "zscore" THEN _zscore_normalize(df, stats)
    ELSE [stats |-> stats, out |-> <<>>, exc |-> "ValueError"]

(***************************************************************************)
(* Normalizing a sequence of tables on one LogPreprocessor.                *)
(***************************************************************************)
\* every table of the one column x with values 1, 2, 3 and missing, and the
\* tables of the two columns x and y holding distinct values, a constant (as
\* in test_normalize_features_constant) or a missing value
NormTables ==
    LET WideContents ==
            {<<Num(1), Num(2), Num(3)>>, <<Num(2), Num(2), Num(2)>>,
             <<NaN, Num(1), Num(3)>>}
    IN  {<<[name |-> "x", vals |-> v]>> :
            v \in UNION {[1..n -> {Num(1), Num(2), Num(3), NaN}] : n \in 0..MaxNormRows}}
        \cup {<<[name |-> "x", vals |-> v], [name |-> "y", vals |-> w]>> :
                v \in WideContents, w \in WideContents}

\* LogPreprocessor(PreprocessingConfig(normalization_method = m))
InitNorm ==
    /\ args \in {[DefaultArgs EXCEPT !.normalization_method = m] :
                    m \in {"minmax", "zscore"}}
    /\ config = args
    /\ built = "ok"
    /\ op = "none"
    /\ err = NoError
    /\ inp = <<>>
    /\ ret = <<>>
    /\ feature_stats = NoStats
    /\ prev_stats = NoStats
    /\ calls = 0
    /\ table = NoTable
    /\ files = NoFiles

\* preprocessor.normalize_features(df)
NormalizeFeatures(df) ==
    /\ built = "ok"
    /\ calls < MaxCalls
    /\ calls' = calls + 1
    /\ LET r == normalize_features(df, config, feature_stats)
       IN  /\ feature_stats' = r.stats
           /\ err' = r.exc
           /\ ret' = r.out
    /\ prev_stats' = feature_stats
    /\ inp' = df
    /\ op' = "normalize_features"
    \* lines 231 and 252: the columns are written to df.copy(), never to df
    /\ table' = df
    /\ UNCHANGED <<args, config, built, files>>

NextNorm == \E df \in NormTables : NormalizeFeatures(df)

SpecNorm == InitNorm /\ [][NextNorm]_vars

(***************************************************************************)
(* pandas' reading of a frequency string, as df.resample(window_size) and  *)
(* pd.Grouper(freq = window_size) apply it to the raw configuration string *)
(* (lines 184 and 204).  pandas wants the whole string to be               *)
(* <count><alias>; its aliases are not the keys of unit_map.  Where the    *)
(* outcome depends on the pandas release, every outcome is listed.         *)
(***************************************************************************)
Tick(seconds) == [kind |-> "tick", seconds |-> seconds]

MonthEnd == [kind |-> "month", seconds |-> 0]

InvalidFreq == [kind |-> "invalid", seconds |-> 0]

\* the outcomes for one alias with the count n
RECURSIVE PandasAlias(_, _)
PandasAlias(alias, n) ==
    CASE alias = <<"s">> -> {Tick(n)}
      [] alias = <<"m", "i", "n">> -> {Tick(60 * n)}
      [] alias = <<"h">> -> {Tick(3600 * n)}
      [] alias = <<"d">> -> {Tick(86400 * n)}
      \* "m" is read as "M": month end, or no alias at all from pandas 2.2 on
      [] alias \in {<<"m">>, <<"M">>} -> {MonthEnd, InvalidFreq}
      \* the upper-case spellings are accepted by some releases only
      [] alias \in {<<"S">>, <<"H">>, <<"D">>} \/ Lower(alias) = <<"m", "i", "n">>
            -> PandasAlias(Lower(alias), n) \cup {InvalidFreq}
      \* sec, hr, day and every other text name no frequency
      [] OTHER -> {InvalidFreq}

\* to_offset(freq): the set of outcomes
PandasFreq(freq) ==
    LET nd == RunLen(freq, 1, Digits)
        nl == RunLen(freq, nd + 1, Letters)
        n == IF nd = 0 THEN 1 ELSE IntOf(SubSeq(freq, 1, nd))
    IN  IF freq = NoneStr \/ nl = 0 \/ nd + nl # Len(freq) \/ n = 0
        THEN {InvalidFreq}
        ELSE PandasAlias(SubSeq(freq, nd + 1, Len(freq)), n)

(***************************************************************************)
(* LogPreprocessor.create_time_windows.  A feature table is                *)
(* [columns, rows, datetime]: the names of the numeric columns, the rows   *)
(* [timestamp, vals] in arrival order, and whether the timestamp column    *)
(* has a datetime type (an empty table built by process has not).          *)
(* Timestamps are seconds since 2024-03-15 00:00:00.                       *)
(***************************************************************************)
\* the bin of timestamp ts; tick bins are anchored at midnight (origin
\* 'start_day'), which is a multiple of every window size tried here
BinOf(freq, ts) == IF freq.kind = "tick" THEN ts \div freq.seconds ELSE 0

\* BinLabel with a tick bin labelled by its end (resample's label='right')
BinLabel_right(freq, b) ==
    IF freq.kind = "tick" THEN (b + 1) * freq.seconds ELSE 16 * 86400

\* the index label of a bin: its start, or the month end, which for the
\* dates of March 2024 is 2024-03-31 00:00:00
BinLabel(freq, b) == IF freq.kind = "tick" THEN b * freq.seconds ELSE 16 * 86400

\* resample orders the rows by timestamp, keeping the arrival order of ties
RECURSIVE SortRows(_)
SortRows(rows) ==
    \* row r put behind the rows of sorted that are not later than it
    LET InsertRow(sorted, r) ==
            LET n == Cardinality({i \in 1..Len(sorted) :
                                    sorted[i].timestamp <= r.timestamp})
            IN  SubSeq(sorted, 1, n) \o <<r>> \o SubSeq(sorted, n + 1, Len(sorted))
    IN  IF rows = <<>> THEN <<>>
        ELSE InsertRow(SortRows(SubSeq(rows, 1, Len(rows) - 1)), rows[Len(rows)])

\* the rows of one bin
RowsOfBin(freq, rows, b) ==
    LET InBin(r) == BinOf(freq, r.timestamp) = b
    IN  SelectSeq(rows, InBin)

\* the bins pandas iterates: every bin from the first row's to the last row's
BinsOf(freq, rows) ==
    IF rows = <<>> THEN <<>>
    ELSE LET lo == BinOf(freq, rows[1].timestamp)
             hi == BinOf(freq, rows[Len(rows)].timestamp)
         IN  [k \in 1..(hi - lo + 1) |-> lo + k - 1]

\* lines 189-192 with window.tail in the place of window.head
FilterWindow_tail(window, c) ==
    IF Len(window) >= c.min_logs_per_window
    THEN IF c.max_logs_per_window # NoneInt /\ c.max_logs_per_window[1] # 0
         THEN <<SubSeq(window,
                       IF c.max_logs_per_window[1] < Len(window)
                       THEN Len(window) - c.max_logs_per_window[1] + 1 ELSE 1,
                       Len(window))>>
         ELSE <<window>>
    ELSE <<>>

\* lines 189-192: the window as it enters valid_windows (cut by window.head
\* to its first max_logs_per_window rows), or nothing
FilterWindow(window, c) ==
    IF Len(window) >= c.min_logs_per_window
    THEN IF c.max_logs_per_window # NoneInt /\ c.max_logs_per_window[1] # 0
         THEN <<SubSeq(window, 1, IF c.max_logs_per_window[1] < Len(window)
                                  THEN c.max_logs_per_window[1]
                                  ELSE Len(window))>>
         ELSE <<window>>
    ELSE <<>>

\* lines 187-192: valid_windows, built from bin number k on
RECURSIVE ValidWindows(_, _, _, _)
ValidWindows(freq, rows, c, k) ==
    LET bins == BinsOf(freq, rows)
    IN  IF k > Len(bins) THEN <<>>
        ELSE FilterWindow(RowsOfBin(freq, rows, bins[k]), c)
                \o ValidWindows(freq, rows, c, k + 1)

\* pd.concat
RECURSIVE Concat(_)
Concat(windows) ==
    IF windows = <<>> THEN <<>> ELSE Head(windows) \o Concat(Tail(windows))

\* one aggregate of one column over the rows of a bin (NaN for an empty bin)
Aggregate(agg, vals) ==
    CASE agg = "mean" -> ColMean(vals)
      [] agg = "std" -> ColStd(vals)
      [] agg = "min" -> ColMin(vals)
      [] agg = "max" -> ColMax(vals)

\* line 204: groupby(pd.Grouper(freq = window_size)).agg(agg_dict); the
\* grouper yields a row for every bin between the first and the last row kept
GroupAggregate(freq, columns, rows) ==
    LET bins == BinsOf(freq, rows)
        ColVals(j, b) ==
            LET w == RowsOfBin(freq, rows, b)
            IN  [i \in 1..Len(w) |-> w[i].vals[j]]
    IN  [index |-> [k \in 1..Len(bins) |-> BinLabel(freq, bins[k])],
         columns |->
            SubSeq([n \in 1..(4 * Len(columns)) |->
                       LET j == ((n - 1) \div 4) + 1
                           a == <<"mean", "std", "min", "max">>[((n - 1) % 4) + 1]
                       IN  [name |-> <<columns[j], a>>,
                            vals |-> SubSeq([k \in 1..Len(bins) |->
                                                Aggregate(a, ColVals(j, bins[k]))],
                                            1, Len(bins))]],
                   1, 4 * Len(columns))]

\* create_time_windows with pandas reading the window size as freq
create_time_windows(df, c, freq) ==
    IF freq.kind = "invalid"
    THEN [exc |-> "ValueError", msg |-> "Invalid frequency", out |-> NoTable]
    ELSE IF ~df.datetime
    THEN [exc |-> "TypeError", msg |-> "Only valid with DatetimeIndex", out |-> NoTable]
    ELSE LET windows == SortRows(df.rows)
             valid_windows == ValidWindows(freq, windows, c, 1)
         IN  IF valid_windows = <<>>
             THEN [exc |-> "ValueError", msg |-> "No valid time windows found",
                   out |-> NoTable]
             ELSE [exc |-> NoError, msg |-> "",
                   out |-> GroupAggregate(freq, df.columns, Concat(valid_windows))]

(***************************************************************************)
(* Windowing one feature table.  create_time_windows neither reads nor     *)
(* writes feature_stats, so one call per behaviour shows all it does.      *)
(***************************************************************************)
\* the tables of one numeric column f: every table of up to MaxRows records
\* at 10:00:00, 10:01:00 or 10:02:00 (the first timestamps of the fixture
\* sample_logs) with value 1 or 2, the fixture tables (the five records one
\* minute apart of sample_logs, and five records of which the one at 10:01
\* is alone in its minute), and the empty table
WindowTables ==
    LET WindowRows ==
            [timestamp : {36000, 36060, 36120}, vals : {<<Num(1)>>, <<Num(2)>>}]
        FixtureRows ==
            {[k \in 1..5 |-> [timestamp |-> 36000 + 60 * (k - 1), vals |-> <<Num(k)>>]],
             <<[timestamp |-> 36000, vals |-> <<Num(1)>>],
               [timestamp |-> 36000, vals |-> <<Num(2)>>],
               [timestamp |-> 36060, vals |-> <<Num(3)>>],
               [timestamp |-> 36120, vals |-> <<Num(4)>>],
               [timestamp |-> 36120, vals |-> <<Num(5)>>]>>}
    IN  {[columns |-> <<"f">>, rows |-> r, datetime |-> TRUE] :
            r \in UNION {[1..n -> WindowRows] : n \in 1..MaxRows} \cup FixtureRows}
        \cup {[columns |-> <<"f">>, rows |-> <<>>, datetime |-> d] : d \in BOOLEAN}

WindowArgs ==
    {[DefaultArgs EXCEPT !.window_size = ws, !.min_logs_per_window = mn,
                         !.max_logs_per_window = mx, !.window_stride = st] :
        ws \in {<<"1", "m", "i", "n">>, <<"2", "m", "i", "n">>, <<"1", "h">>,
                <<"1", "h", "r">>, <<"1", "m">>},
        mn \in 1..MaxCount,
        mx \in {NoneInt} \cup {Some(n) : n \in 1..MaxCount},
        st \in {NoneStr, <<"1", "m", "i", "n">>}}

\* LogPreprocessor(PreprocessingConfig(**args)) for arguments that construct
InitWindow ==
    /\ args \in {a \in WindowArgs : __post_init__(a) = NoError}
    /\ config = args
    /\ built = "ok"
    /\ op = "none"
    /\ err = NoError
    /\ inp = NoTable
    /\ ret = NoTable
    /\ feature_stats = NoStats
    /\ prev_stats = NoStats
    /\ calls = 0
    /\ table = NoTable
    /\ files = NoFiles

\* preprocessor.create_time_windows(df)
CreateTimeWindows(df) ==
    /\ built = "ok"
    /\ calls = 0
    /\ \E freq \in PandasFreq(config.window_size) :
          LET r == create_time_windows(df, config, freq)
          IN  /\ err' = r.exc
              /\ ret' = r.out
    /\ inp' = df
    /\ op' = "create_time_windows"
    /\ calls' = calls + 1
    /\ prev_stats' = feature_stats
    /\ UNCHANGED <<args, config, built, feature_stats, table, files>>

NextWindow == \E df \in WindowTables : CreateTimeWindows(df)

SpecWindow == InitWindow /\ [][NextWindow]_vars

(***************************************************************************)
(* Python string operations used by parse_logs.  Positions handed to find  *)
(* and taken from it count from 0, as in the source.                       *)
(***************************************************************************)
\* the whitespace characters that occur in the lines of the model
Whitespace == {" ", "\t"}

MinOf(S) == CHOOSE x \in S : \A y \in S : x <= y

MaxOf(S) == CHOOSE x \in S : \A y \in S : x >= y

\* s[a:b], s[a:] being Slice(s, a, Len(s))
Slice(s, a, b) ==
    LET e == IF b < Len(s) THEN b ELSE Len(s)
    IN  IF a + 1 > e THEN <<>> ELSE SubSeq(s, a + 1, e)

\* s.find(c, start)
find(s, c, start) ==
    LET hits == {i \in start..(Len(s) - 1) : s[i + 1] = c}
    IN  IF hits = {} THEN -1 ELSE MinOf(hits)

\* s.strip()
strip(s) ==
    LET kept == {i \in 1..Len(s) : s[i] \notin Whitespace}
    IN  IF kept = {} THEN <<>> ELSE SubSeq(s, MinOf(kept), MaxOf(kept))

\* s.split(sep, maxsplit); maxsplit = -1 puts no limit on the splits
RECURSIVE split(_, _, _)
split(s, sep, maxsplit) ==
    LET k == find(s, sep, 0)
    IN  IF k = -1 \/ maxsplit = 0 THEN <<s>>
        ELSE <<Slice(s, 0, k)>> \o split(Slice(s, k + 1, Len(s)), sep, maxsplit - 1)

\* int(s): s without surrounding whitespace is a sign, then digits with
\* single underscores between them
int(s) ==
    LET Stripped(t) ==
            LET signed == t # <<>> /\ t[1] \in {"+", "-"}
                body == IF signed THEN Tail(t) ELSE t
                IsDigit(c) == c \in Digits
                wellformed ==
                    /\ body # <<>>
                    /\ body[1] \in Digits
                    /\ body[Len(body)] \in Digits
                    /\ \A i \in 1..Len(body) : body[i] \in Digits \cup {"_"}
                    /\ \A i \in 1..(Len(body) - 1) : ~(body[i] = "_" /\ body[i + 1] = "_")
                v == IntOf(SelectSeq(body, IsDigit))
            IN  IF wellformed
                THEN [exc |-> NoError, val |-> IF signed /\ t[1] = "-" THEN 0 - v ELSE v]
                ELSE [exc |-> "ValueError", val |-> 0]
    IN  Stripped(strip(s))

(***************************************************************************)
(* datetime: a timestamp is <<year, month, day, hour, minute, second>>.    *)
(***************************************************************************)
\* no timestamp (None)
NoTime == <<>>

DaysInMonth(year, month) ==
    CASE month \in {4, 6, 9, 11} -> 30
      [] month = 2 ->
            IF (year % 4 = 0 /\ year % 100 # 0) \/ year % 400 = 0 THEN 29 ELSE 28
      [] OTHER -> 31

\* datetime(year, month, day, hour, minute, second)
datetime(year, month, day, hour, minute, second) ==
    IF /\ year \in 1..9999
       /\ month \in 1..12
       /\ day >= 1 /\ day <= DaysInMonth(year, month)
       /\ hour \in 0..23
       /\ minute \in 0..59
       /\ second \in 0..59
    THEN [exc |-> NoError, val |-> <<year, month, day, hour, minute, second>>]
    ELSE [exc |-> "ValueError", val |-> NoTime]

(***************************************************************************)
(* Regular expressions of the shape the source uses: a sequence of items,  *)
(* each matching a piece of the text.  An item offers the lengths it can   *)
(* match at a position in the order in which the regex engine tries them;  *)
(* the first way through all items is the match.                           *)
(***************************************************************************)
Opt(cond, n) == IF cond THEN <<n>> ELSE <<>>

\* n, n - 1, ..., 1: a greedy repetition giving back one character at a time
Descending(n) == [k \in 1..n |-> n - k + 1]

\* the n characters of text from position p on, or nothing when they run out
At(text, p, n) == IF p + n - 1 <= Len(text) THEN SubSeq(text, p, p + n - 1) ELSE <<>>

AllDigits(w) == \A i \in 1..Len(w) : w[i] \in Digits

MonthNames ==
    <<<<"j", "a", "n">>, <<"f", "e", "b">>, <<"m", "a", "r">>, <<"a", "p", "r">>,
      <<"m", "a", "y">>, <<"j", "u", "n">>, <<"j", "u", "l">>, <<"a", "u", "g">>,
      <<"s", "e", "p">>, <<"o", "c", "t">>, <<"n", "o", "v">>, <<"d", "e", "c">>>>

\* the lengths item can match at text[p], in the engine's order
Lengths(item, text, p) ==
    LET w1 == At(text, p, 1)
        w2 == At(text, p, 2)
        w3 == At(text, p, 3)
        w4 == At(text, p, 4)
    IN  CASE item \in {"%Y", "d{4}"} -> Opt(w4 # <<>> /\ AllDigits(w4), 4)
          [] item = "d{2}" -> Opt(w2 # <<>> /\ AllDigits(w2), 2)
          \* 1[0-2]|0[1-9]|[1-9]
          [] item = "%m" ->
                Opt(w2 # <<>> /\ (\/ w2[1] = "1" /\ w2[2] \in {"0", "1", "2"}
                                  \/ w2[1] = "0" /\ w2[2] \in (Digits \ {"0"})), 2)
                \o Opt(w1 # <<>> /\ w1[1] \in (Digits \ {"0"}), 1)
          \* 3[01]|[12]\d|0[1-9]|[1-9]| [1-9]
          [] item = "%d" ->
                Opt(w2 # <<>> /\ (\/ w2[1] = "3" /\ w2[2] \in {"0", "1"}
                                  \/ w2[1] \in {"1", "2"} /\ w2[2] \in Digits
                                  \/ w2[1] = "0" /\ w2[2] \in (Digits \ {"0"})), 2)
                \o Opt(w1 # <<>> /\ w1[1] \in (Digits \ {"0"}), 1)
                \o Opt(w2 # <<>> /\ w2[1] = " " /\ w2[2] \in (Digits \ {"0"}), 2)
          \* 2[0-3]|[0-1]\d|\d
          [] item = "%H" ->
                Opt(w2 # <<>> /\ (\/ w2[1] = "2" /\ w2[2] \in {"0", "1", "2", "3"}
                                  \/ w2[1] \in {"0", "1"} /\ w2[2] \in Digits), 2)
                \o Opt(w1 # <<>> /\ w1[1] \in Digits, 1)
          \* [0-5]\d|\d
          [] item = "%M" ->
                Opt(w2 # <<>> /\ w2[1] \in {"0", "1", "2", "3", "4", "5"}
                              /\ w2[2] \in Digits, 2)
                \o Opt(w1 # <<>> /\ w1[1] \in Digits, 1)
          \* 6[01]|[0-5]\d|\d
          [] item = "%S" ->
                Opt(w2 # <<>> /\ (\/ w2[1] = "6" /\ w2[2] \in {"0", "1"}
                                  \/ w2[1] \in {"0", "1", "2", "3", "4", "5"}
                                     /\ w2[2] \in Digits), 2)
                \o Opt(w1 # <<>> /\ w1[1] \in Digits, 1)
          \* the abbreviated weekday and month names, in any letter case
          [] item = "%a" -> Opt(w3 # <<>> /\ Lower(w3) \in
                       {<<"m", "o", "n">>, <<"t", "u", "e">>, <<"w", "e", "d">>, <<"t", "h", "u">>,
                        <<"f", "r", "i">>, <<"s", "a", "t">>, <<"s", "u", "n">>}, 3)
          [] item = "%b" ->
                Opt(w3 # <<>> /\ \E k \in 1..12 : MonthNames[k] = Lower(w3), 3)
          \* \s+
          [] item = "s+" -> Descending(RunLen(text, p, Whitespace))
          \* [\w\s:]+
          [] item = "[ws:]+" ->
                Descending(RunLen(text, p, Digits \cup Letters \cup {"_"} \cup Whitespace \cup {":"}))
          \* a literal character
          [] OTHER -> Opt(w1 # <<>> /\ w1[1] = item, 1)

\* piece put in front of the pieces of every way of rest
Prepend(piece, rest) ==
    [k \in 1..Len(rest) |->
        [groups |-> <<piece>> \o rest[k].groups, end |-> rest[k].end]]

\* the ways items i.. match text from position p on, in the engine's order:
\* the pieces matched and the position behind the last of them
RECURSIVE RegexWays(_, _, _, _), RegexAlternatives(_, _, _, _, _)
RegexAlternatives(items, i, text, p, lens) ==
    IF lens = <<>> THEN <<>>
    ELSE Prepend(SubSeq(text, p, p + Head(lens) - 1),
                 RegexWays(items, i + 1, text, p + Head(lens)))
         \o RegexAlternatives(items, i, text, p, Tail(lens))

RegexWays(items, i, text, p) ==
    IF i > Len(items) THEN <<[groups |-> <<>>, end |-> p]>>
    ELSE RegexAlternatives(items, i, text, p, Lengths(items[i], text, p))

NoMatch == [matched |-> FALSE, groups |-> <<>>, start |-> 0, end |-> 0]

\* the match object for the ways found at position p: the first way; start
\* and end count from 0 as match.start() and match.end() do
MatchOf(ways, p) ==
    IF ways = <<>> THEN NoMatch
    ELSE [matched |-> TRUE, groups |-> ways[1].groups,
          start |-> p - 1, end |-> ways[1].end - 1]

\* re.match(items, text): the match at the start of text
re_match(items, text) == MatchOf(RegexWays(items, 1, text, 1), 1)

\* the match at the leftmost of the positions starts
LeftmostMatch(items, text, starts) ==
    IF starts = {} THEN NoMatch
    ELSE MatchOf(RegexWays(items, 1, text, MinOf(starts)), MinOf(starts))

\* re.search(items, text): the match at the leftmost position that has one
re_search(items, text) ==
    LeftmostMatch(items, text,
                  {p \in 1..(Len(text) + 1) : RegexWays(items, 1, text, p) # <<>>})

\* the regex datetime.strptime builds from a format string: a directive per
\* item, a space of the format standing for \s+
FormatItems(format) ==
    CASE format = "%Y-%m-%d %H:%M:%S" ->
            <<"%Y", "-", "%m", "-", "%d", "s+", "%H", ":", "%M", ":", "%S">>
      [] format = "%Y-%d-%m %H:%M:%S" ->
            <<"%Y", "-", "%d", "-", "%m", "s+", "%H", ":", "%M", ":", "%S">>
      [] format = "%a %b %d %H:%M:%S %Y" ->
            <<"%a", "s+", "%b", "s+", "%d", "s+", "%H", ":", "%M", ":", "%S",
              "s+", "%Y">>
      [] format = "%d/%b/%Y:%H:%M:%S" ->
            <<"%d", "/", "%b", "/", "%Y", ":", "%H", ":", "%M", ":", "%S">>
      [] format = "%Y%m%d-%H:%M:%S" ->
            <<"%Y", "%m", "%d", "-", "%H", ":", "%M", ":", "%S">>

\* the piece the directive matched
GroupOf(items, groups, directive) ==
    groups[CHOOSE i \in 1..Len(items) : items[i] = directive]

\* the number the directive matched
Field(items, groups, directive) == IntOf(strip(GroupOf(items, groups, directive)))

\* the month of the matched text, by name (%b) or by number (%m)
MonthField(items, groups) ==
    IF \E i \in 1..Len(items) : items[i] = "%b"
    THEN CHOOSE k \in 1..12 : MonthNames[k] = Lower(GroupOf(items, groups, "%b"))
    ELSE Field(items, groups, "%m")

\* the timestamp for match m of the format regex items on text: the regex
\* must have matched and left nothing over, and the fields must name a date
\* and a time
TimeOfMatch(items, m, text) ==
    IF ~m.matched \/ m.end # Len(text)
    THEN [exc |-> "ValueError", val |-> NoTime]
    ELSE datetime(Field(items, m.groups, "%Y"), MonthField(items, m.groups),
                  Field(items, m.groups, "%d"), Field(items, m.groups, "%H"),
                  Field(items, m.groups, "%M"), Field(items, m.groups, "%S"))

\* datetime.strptime(text, format)
strptime(text, format) ==
    TimeOfMatch(FormatItems(format), re_match(FormatItems(format), text), text)

(***************************************************************************)
(* LogPreprocessor.parse_logs on a list.  Each branch gives the exception  *)
(* raised in it (NoError if none), whether the branch's own handler caught *)
(* it, and the timestamp and message it assigned.  A list element that is  *)
(* no string is NoneStr.                                                   *)
(***************************************************************************)
Parsed(timestamp, message) ==
    [exc |-> NoError, caught |-> FALSE, timestamp |-> timestamp, message |-> message]

Raised(exc, caught) ==
    [exc |-> exc, caught |-> caught, timestamp |-> NoTime, message |-> NoneStr]

\* r'\[([\w\s:]+)\]'
ApachePattern == <<"[", "[ws:]+", "]">>

\* r'(\d{4}-\d{2}-\d{2}\s+\d{2}:\d{2}:\d{2})'
DefaultPattern ==
    <<"d{4}", "-", "d{2}", "-", "d{2}", "s+", "d{2}", ":", "d{2}", ":", "d{2}">>

\* the outcome of a branch whose timestamp construction gave timestamp:
\* the exception it raised, or the timestamp and the message
Outcome(timestamp, caught, message) ==
    IF timestamp.exc # NoError THEN Raised(timestamp.exc, caught)
    ELSE Parsed(timestamp.val, message)

\* lines 42-50
ApacheMatched(log, match) ==
    IF ~match.matched THEN Parsed(NoTime, NoneStr)
    ELSE Outcome(strptime(match.groups[2], "%a %b %d %H:%M:%S %Y"), TRUE,
                 strip(Slice(log, find(log, "]", find(log, "]", 0) + 1) + 1, Len(log))))

\* lines 38-50
ParseApache(log) ==
    IF log = NoneStr THEN Raised("TypeError", FALSE)
    ELSE ApacheMatched(log, re_search(ApachePattern, log))

\* lines 59-68, the arguments being the results of the six int(...) calls
HdfsFields(year, month, day, hour, minute, second, message) ==
    IF \E f \in {year, month, day, hour, minute, second} : f.exc # NoError
    THEN Raised("ValueError", TRUE)
    ELSE Outcome(datetime(year.val, month.val, day.val,
                          hour.val, minute.val, second.val), TRUE, message)

\* lines 54-71 with the thread id kept in the message
HdfsPartsThreadInMessage(parts) ==
    IF Len(parts) < 4 THEN Parsed(NoTime, NoneStr)
    ELSE LET date_str == parts[1]
             time_str == parts[2]
         IN  HdfsFields(int(<<"2", "0">> \o Slice(date_str, 0, 2)),
                        int(Slice(date_str, 2, 4)),
                        int(Slice(date_str, 4, Len(date_str))),
                        int(Slice(time_str, 0, 2)),
                        int(Slice(time_str, 2, 4)),
                        int(Slice(time_str, 4, Len(time_str))),
                        parts[3] \o <<" ">> \o parts[4])

\* lines 54-71
HdfsParts(parts) ==
    IF Len(parts) < 4 THEN Parsed(NoTime, NoneStr)
    ELSE LET date_str == parts[1]
             time_str == parts[2]
         IN  HdfsFields(int(<<"2", "0">> \o Slice(date_str, 0, 2)),
                        int(Slice(date_str, 2, 4)),
                        int(Slice(date_str, 4, Len(date_str))),
                        int(Slice(time_str, 0, 2)),
                        int(Slice(time_str, 2, 4)),
                        int(Slice(time_str, 4, Len(time_str))),
                        parts[4])

\* lines 51-71
ParseHdfs(log) ==
    IF log = NoneStr THEN Raised("AttributeError", FALSE)
    ELSE HdfsParts(split(log, " ", 3))

\* lines 79-84, segments being timestamp_str.split(':')
HealthAppSegments(parts, segments) ==
    IF Len(segments) < 3 THEN Raised("IndexError", TRUE)
    ELSE Outcome(strptime(segments[1] \o <<":">> \o segments[2] \o <<":">> \o segments[3],
                          "%Y%m%d-%H:%M:%S"),
                 TRUE,
                 parts[2] \o <<"|">> \o parts[3] \o <<"|">> \o parts[4])

\* lines 75-87
HealthAppParts(parts) ==
    IF Len(parts) < 4 THEN Parsed(NoTime, NoneStr)
    ELSE HealthAppSegments(parts, split(parts[1], ":", -1))

\* lines 72-87
ParseHealthApp(log) ==
    IF log = NoneStr THEN Raised("AttributeError", FALSE)
    ELSE HealthAppParts(split(log, "|", -1))

\* lines 90-94 with the message left untrimmed
DefaultMatchedNoStrip(log, match, c) ==
    IF ~match.matched THEN Parsed(NoTime, NoneStr)
    ELSE Outcome(strptime(Slice(log, match.start, match.end), c.timestamp_format),
                 FALSE,
                 Slice(log, match.end, Len(log)))

\* lines 90-94
DefaultMatched(log, match, c) ==
    IF ~match.matched THEN Parsed(NoTime, NoneStr)
    ELSE Outcome(strptime(Slice(log, match.start, match.end), c.timestamp_format),
                 FALSE,
                 strip(Slice(log, match.end, Len(log))))

\* lines 88-94
ParseDefault(log, c) ==
    IF log = NoneStr THEN Raised("TypeError", FALSE)
    ELSE DefaultMatched(log, re_search(DefaultPattern, log), c)

\* lines 35-94: the body of the try of one loop round
ParseLine(log, log_type, c) ==
    CASE log_type = "apache" -> ParseApache(log)
      [] log_type = "hdfs" -> ParseHdfs(log)
      [] log_type = "healthapp" -> ParseHealthApp(log)
      [] OTHER -> ParseDefault(log, c)

\* line 98 as a handler that lets every exception but ValueError pass
ExceptValueErrorOnly(exc) == exc = "ValueError"

\* line 98: except Exception
ExceptException(exc) == exc # NoError

\* line 96: if timestamp and message
Truthy(r) == r.timestamp # NoTime /\ r.message \notin {NoneStr, <<>>}

\* lines 33-102: the loop over logs from element i on, parsed_logs being
\* the records appended so far; LoopRound is the round whose try body gave r
RECURSIVE ParseLoop(_, _, _, _, _), LoopRound(_, _, _, _, _, _)
LoopRound(logs, i, log_type, c, parsed_logs, r) ==
    IF r.exc # NoError
    THEN IF r.caught \/ ExceptException(r.exc)
         THEN ParseLoop(logs, i + 1, log_type, c, parsed_logs)
         ELSE [exc |-> r.exc, out |-> <<>>]
    ELSE ParseLoop(logs, i + 1, log_type, c,
                   IF Truthy(r)
                   THEN Append(parsed_logs,
                               [timestamp |-> r.timestamp, message |-> r.message])
                   ELSE parsed_logs)

ParseLoop(logs, i, log_type, c, parsed_logs) ==
    IF i > Len(logs) THEN [exc |-> NoError, out |-> parsed_logs]
    ELSE LoopRound(logs, i, log_type, c, parsed_logs, ParseLine(logs[i], log_type, c))

\* parse_logs(logs, log_type) for a list
parse_logs(logs, log_type, c) == ParseLoop(logs, 1, log_type, c, <<>>)

\* pd.to_datetime(arg, format=format) for a column of strings: every value is
\* parsed with the format, and one that does not parse raises
to_datetime(arg, format) ==
    IF \E i \in 1..Len(arg) : strptime(arg[i], format).exc # NoError
    THEN [exc |-> "ValueError", val |-> <<>>]
    ELSE [exc |-> NoError, val |-> [i \in 1..Len(arg) |-> strptime(arg[i], format).val]]

\* lines 104-115: parse_logs(logs, log_type) for a DataFrame, a table of
\* columns data whose column timestamp has the type dtype; converted is the
\* result of pd.to_datetime on that column where it is called.  The
\* converted column is assigned to logs itself, the caller's object (lines
\* 111 and 113), and the copy is taken afterwards (line 115): the result
\* holds the table returned (out) and the caller's table after the call
\* (logs).
parse_logs_DataFrame(logs, log_type, c, converted) ==
    IF "timestamp" \notin DOMAIN logs.data \/ "message" \notin DOMAIN logs.data
    THEN [exc |-> "ValueError", out |-> NoTable, logs |-> logs]
    ELSE IF logs.dtype = "datetime64[ns]"
    THEN [exc |-> NoError, out |-> logs, logs |-> logs]
    ELSE IF converted.exc # NoError
    THEN [exc |-> converted.exc, out |-> NoTable, logs |-> logs]
    ELSE LET assigned == [dtype |-> "datetime64[ns]",
                          data |-> [logs.data EXCEPT !["timestamp"] = converted.val]]
         IN  [exc |-> NoError, out |-> assigned, logs |-> assigned]

(***************************************************************************)
(* Parsing lists of lines.  parse_logs neither reads nor writes            *)
(* feature_stats, so one call per behaviour shows all it does.             *)
(***************************************************************************)
\* the lines of the model, by name: for each format lines that are well
\* formed and lines that are not
\*   DefaultLine1      the first line of the fixture sample_logs
\*   DefaultLine2      the second line of the fixture sample_logs
\*   DefaultBadMonth   a timestamp of the default shape that names no date
\*   DefaultNoStamp    no timestamp at all
\*   DefaultNoMessage  a timestamp and nothing after it
\*   DefaultLateStamp  text before the timestamp and a run of whitespace inside it
\*   HdfsLine1         an HDFS line
\*   HdfsLine2         another HDFS line
\*   HdfsThreeParts    three parts only
\*   HdfsBadDate       a date that is no number
\*   HdfsBadHour       a time that names no time of day
\*   HdfsTwoSpaces     two spaces between date and time
\*   ApacheLine1       an Apache error-log line
\*   ApacheLine2       another Apache error-log line
\*   ApacheNoYear      a bracket that holds no full timestamp
\*   ApacheLateStamp   a bracket group before the timestamp
\*   ApacheOneBracket  a timestamp bracket and nothing else
\*   HealthLine1       a HealthApp line
\*   HealthLine2       another HealthApp line
\*   HealthShortTime   a first part with two colon-separated segments
\*   HealthThreeParts  three parts only
\*   HealthFiveParts   five parts
\*   HealthBadDate     a date that names no day
LogLine ==
    [DefaultLine1 |->
        <<"2", "0", "2", "4", "-", "0", "3", "-", "1", "5", " ", "1", "0",
          ":", "0", "0", ":", "0", "0", " ", "I", "N", "F", "O", " ", "U",
          "s", "e", "r", " ", "l", "o", "g", "i", "n", " ", "s", "u", "c",
          "c", "e", "s", "s", "f", "u", "l", " ", "f", "o", "r", " ", "u",
          "s", "e", "r", "1", "2", "3">>,
     DefaultLine2 |->
        <<"2", "0", "2", "4", "-", "0", "3", "-", "1", "5", " ", "1", "0",
          ":", "0", "1", ":", "0", "0", " ", "E", "R", "R", "O", "R", " ",
          "F", "a", "i", "l", "e", "d", " ", "t", "o", " ", "c", "o", "n",
          "n", "e", "c", "t", " ", "t", "o", " ", "d", "a", "t", "a", "b",
          "a", "s", "e", " ", "[", "r", "e", "t", "r", "y", "=", "3", "]">>,
     DefaultBadMonth |->
        <<"2", "0", "2", "4", "-", "1", "3", "-", "1", "5", " ", "1", "0",
          ":", "0", "0", ":", "0", "0", " ", "I", "N", "F", "O", " ", "m",
          "o", "n", "t", "h", " ", "t", "h", "i", "r", "t", "e", "e", "n">>,
     DefaultNoStamp |->
        <<"I", "N", "F", "O", " ", "n", "o", " ", "t", "i", "m", "e", "s",
          "t", "a", "m", "p", " ", "h", "e", "r", "e">>,
     DefaultNoMessage |->
        <<"2", "0", "2", "4", "-", "0", "3", "-", "1", "5", " ", "1", "0",
          ":", "0", "2", ":", "0", "0", " ">>,
     DefaultLateStamp |->
        <<"h", "o", "s", "t", "7", " ", "2", "0", "2", "4", "-", "0", "3",
          "-", "1", "5", " ", " ", "1", "0", ":", "0", "3", ":", "0", "0",
          " ", "\t", "W", "A", "R", "N", "I", "N", "G", " ", "H", "i", "g",
          "h", " ", "C", "P", "U", " ", "u", "s", "a", "g", "e", " ", "d",
          "e", "t", "e", "c", "t", "e", "d", ":", " ", "9", "5", "%", " ">>,
     HdfsLine1 |->
        <<"0", "8", "1", "1", "0", "9", " ", "2", "0", "3", "5", "1", "8",
          " ", "1", "4", "8", " ", "I", "N", "F", "O", " ", "d", "f", "s",
          ".", "D", "a", "t", "a", "N", "o", "d", "e", "$", "P", "a", "c",
          "k", "e", "t", "R", "e", "s", "p", "o", "n", "d", "e", "r", ":",
          " ", "P", "a", "c", "k", "e", "t", "R", "e", "s", "p", "o", "n",
          "d", "e", "r", " ", "1", " ", "f", "o", "r", " ", "b", "l", "o",
          "c", "k", " ", "b", "l", "k", "_", "3", "8", "8", "6", "5", "0",
          "4", "9", "0", "6", "4", "1", "3", "9", "6", "6", "0", " ", "t",
          "e", "r", "m", "i", "n", "a", "t", "i", "n", "g">>,
     HdfsLine2 |->
        <<"0", "8", "1", "1", "0", "9", " ", "2", "0", "3", "5", "1", "9",
          " ", "1", "4", "3", " ", "I", "N", "F", "O", " ", "d", "f", "s",
          ".", "D", "a", "t", "a", "N", "o", "d", "e", "$", "D", "a", "t",
          "a", "X", "c", "e", "i", "v", "e", "r", ":", " ", "R", "e", "c",
          "e", "i", "v", "i", "n", "g", " ", "b", "l", "o", "c", "k", " ",
          "b", "l", "k", "_", "-", "1", "6", "0", "8", "9", "9", "9", "6",
          "8", "7", "9", "1", "9", "8", "6", "2", "9", "0", "6">>,
     HdfsThreeParts |->
        <<"0", "8", "1", "1", "0", "9", " ", "2", "0", "3", "5", "1", "8",
          " ", "1", "4", "8">>,
     HdfsBadDate |->
        <<"0", "8", "1", "1", "x", "x", " ", "2", "0", "3", "5", "1", "8",
          " ", "1", "4", "8", " ", "I", "N", "F", "O", " ", "l", "e", "t",
          "t", "e", "r", "s", " ", "i", "n", " ", "t", "h", "e", " ", "d",
          "a", "t", "e">>,
     HdfsBadHour |->
        <<"0", "8", "1", "1", "0", "9", " ", "2", "5", "6", "0", "1", "8",
          " ", "1", "4", "8", " ", "I", "N", "F", "O", " ", "h", "o", "u",
          "r", " ", "t", "w", "e", "n", "t", "y", "-", "f", "i", "v", "e">>,
     HdfsTwoSpaces |->
        <<"0", "8", "1", "1", "0", "9", " ", " ", "2", "0", "3", "5", "1",
          "8", " ", "1", "4", "8", " ", "I", "N", "F", "O", " ", "t", "w",
          "o", " ", "s", "p", "a", "c", "e", "s", " ", "a", "f", "t", "e",
          "r", " ", "t", "h", "e", " ", "d", "a", "t", "e">>,
     ApacheLine1 |->
        <<"[", "S", "u", "n", " ", "D", "e", "c", " ", "0", "4", " ", "0",
          "4", ":", "4", "7", ":", "4", "4", " ", "2", "0", "0", "5", "]",
          " ", "[", "n", "o", "t", "i", "c", "e", "]", " ", "w", "o", "r",
          "k", "e", "r", "E", "n", "v", ".", "i", "n", "i", "t", "(", ")",
          " ", "o", "k", " ", "/", "e", "t", "c", "/", "h", "t", "t", "p",
          "d", "/", "c", "o", "n", "f", "/", "w", "o", "r", "k", "e", "r",
          "s", "2", ".", "p", "r", "o", "p", "e", "r", "t", "i", "e", "s">>,
     ApacheLine2 |->
        <<"[", "S", "u", "n", " ", "D", "e", "c", " ", "0", "4", " ", "0",
          "4", ":", "4", "7", ":", "4", "5", " ", "2", "0", "0", "5", "]",
          " ", "[", "e", "r", "r", "o", "r", "]", " ", "m", "o", "d", "_",
          "j", "k", " ", "c", "h", "i", "l", "d", " ", "w", "o", "r", "k",
          "e", "r", "E", "n", "v", " ", "i", "n", " ", "e", "r", "r", "o",
          "r", " ", "s", "t", "a", "t", "e", " ", "6">>,
     ApacheNoYear |->
        <<"[", "S", "u", "n", " ", "D", "e", "c", " ", "0", "4", " ", "0",
          "4", ":", "4", "7", ":", "4", "4", "]", " ", "[", "e", "r", "r",
          "o", "r", "]", " ", "n", "o", " ", "y", "e", "a", "r", " ", "i",
          "n", " ", "t", "h", "e", " ", "t", "i", "m", "e", "s", "t", "a",
          "m", "p">>,
     ApacheLateStamp |->
        <<"[", "c", "l", "i", "e", "n", "t", " ", "1", ".", "2", ".", "3",
          ".", "4", "]", " ", "[", "S", "u", "n", " ", "D", "e", "c", " ",
          "0", "4", " ", "0", "4", ":", "4", "7", ":", "4", "6", " ", "2",
          "0", "0", "5", "]", " ", "l", "a", "t", "e", " ", "t", "i", "m",
          "e", "s", "t", "a", "m", "p">>,
     ApacheOneBracket |->
        <<"[", "S", "u", "n", " ", "D", "e", "c", " ", "0", "4", " ", "0",
          "4", ":", "4", "7", ":", "4", "7", " ", "2", "0", "0", "5", "]">>,
     HealthLine1 |->
        <<"2", "0", "1", "7", "1", "2", "2", "3", "-", "2", "2", ":", "1",
          "5", ":", "2", "9", ":", "6", "0", "6", "|", "S", "t", "e", "p",
          "_", "L", "S", "C", "|", "3", "0", "0", "0", "2", "3", "1", "2",
          "|", "o", "n", "S", "t", "a", "n", "d", "S", "t", "e", "p", "C",
          "h", "a", "n", "g", "e", "d", " ", "3", "5", "7", "9">>,
     HealthLine2 |->
        <<"2", "0", "1", "7", "1", "2", "2", "3", "-", "2", "2", ":", "1",
          "5", ":", "3", "0", ":", "1", "0", "0", "|", "S", "t", "e", "p",
          "_", "S", "P", "U", "t", "i", "l", "s", "|", "3", "0", "0", "0",
          "2", "3", "1", "2", "|", "s", "e", "t", "T", "o", "d", "a", "y",
          "T", "o", "t", "a", "l", "D", "e", "t", "a", "i", "l", "S", "t",
          "e", "p", "s">>,
     HealthShortTime |->
        <<"2", "0", "1", "7", "1", "2", "2", "3", "-", "2", "2", ":", "1",
          "5", "|", "S", "t", "e", "p", "_", "L", "S", "C", "|", "3", "0",
          "0", "0", "2", "3", "1", "2", "|", "n", "o", " ", "s", "e", "c",
          "o", "n", "d", "s">>,
     HealthThreeParts |->
        <<"2", "0", "1", "7", "1", "2", "2", "3", "-", "2", "2", ":", "1",
          "5", ":", "2", "9", ":", "6", "0", "6", "|", "S", "t", "e", "p",
          "_", "L", "S", "C", "|", "3", "0", "0", "0", "2", "3", "1", "2">>,
     HealthFiveParts |->
        <<"2", "0", "1", "7", "1", "2", "2", "3", "-", "2", "2", ":", "1",
          "5", ":", "3", "1", ":", "2", "0", "0", "|", "S", "t", "e", "p",
          "_", "L", "S", "C", "|", "3", "0", "0", "0", "2", "3", "1", "2",
          "|", "c", "a", "l", "c", "u", "l", "a", "t", "e", "|", "s", "t",
          "e", "p", "s", " ", "5">>,
     HealthBadDate |->
        <<"2", "0", "1", "7", "1", "3", "3", "2", "-", "2", "2", ":", "1",
          "5", ":", "2", "9", ":", "6", "0", "6", "|", "S", "t", "e", "p",
          "_", "L", "S", "C", "|", "3", "0", "0", "0", "2", "3", "1", "2",
          "|", "d", "a", "y", " ", "t", "h", "i", "r", "t", "y", "-", "t",
          "w", "o">>]

LogTypes == {"default", "hdfs", "apache", "healthapp"}

\* the lists tried: every list of up to MaxLines lines drawn from two lines
\* of the format and one that raises in the branch, and every list of one
\* element, which is any line of the model or an element that is no string
LogLists(log_type) ==
    LET AllLines == {LogLine[n] : n \in DOMAIN LogLine} \cup {NoneStr}
        ListLines ==
            CASE log_type = "default" ->
                   {LogLine.DefaultLine1, LogLine.DefaultLine2, LogLine.DefaultBadMonth}
              [] log_type = "hdfs" ->
                   {LogLine.HdfsLine1, LogLine.HdfsLine2, LogLine.HdfsBadDate}
              [] log_type = "apache" ->
                   {LogLine.ApacheLine1, LogLine.ApacheLine2, LogLine.ApacheNoYear}
              [] log_type = "healthapp" ->
                   {LogLine.HealthLine1, LogLine.HealthLine2, LogLine.HealthShortTime}
    IN  UNION {[1..n -> ListLines] : n \in 0..MaxLines}
        \cup {<<l>> : l \in AllLines}

ParseArgs ==
    {[DefaultArgs EXCEPT !.timestamp_format = tf, !.apache_timestamp_format = af] :
        tf \in {"%Y-%m-%d %H:%M:%S", "%Y-%d-%m %H:%M:%S"},
        af \in {"%a %b %d %H:%M:%S %Y", "%d/%b/%Y:%H:%M:%S"}}

\* LogPreprocessor(PreprocessingConfig(**args)) for arguments that construct
InitParse ==
    /\ args \in {a \in ParseArgs : __post_init__(a) = NoError}
    /\ config = args
    /\ built = "ok"
    /\ op = "none"
    /\ err = NoError
    /\ inp = [logs |-> <<>>, log_type |-> "none"]
    /\ ret = <<>>
    /\ feature_stats = NoStats
    /\ prev_stats = NoStats
    /\ calls = 0
    /\ table = NoTable
    /\ files = NoFiles

\* preprocessor.parse_logs(logs, log_type) for a list logs
ParseLogs(logs, log_type) ==
    /\ built = "ok"
    /\ calls = 0
    /\ LET r == parse_logs(logs, log_type, config)
       IN  /\ err' = r.exc
           /\ ret' = r.out
    /\ inp' = [logs |-> logs, log_type |-> log_type]
    /\ op' = "parse_logs"
    /\ calls' = calls + 1
    /\ prev_stats' = feature_stats
    /\ UNCHANGED <<args, config, built, feature_stats, table, files>>

\* the tables given to parse_logs: with and without the two columns, the
\* timestamps as strings of the default format, of the Apache format and of
\* neither, or as times already
LogTables ==
    LET stamps == {Slice(LogLine.DefaultLine1, 0, 19), Slice(LogLine.ApacheLine1, 1, 25),
                   Slice(LogLine.DefaultNoStamp, 0, 4)}
        texts == [i \in 1..MaxRows |-> Slice(LogLine.DefaultLine1, 20, 24)]
        times == [i \in 1..MaxRows |-> <<2024, 3, 15, 10, i - 1, 0>>]
    IN  {[dtype |-> "object",
          data |-> [timestamp |-> t, message |-> SubSeq(texts, 1, Len(t))]] :
            t \in UNION {[1..n -> stamps] : n \in 0..MaxRows}}
        \cup {[dtype |-> "object",
               data |-> [col \in cols |-> SubSeq(texts, 1, 1)]] :
                cols \in {{"col1"}, {"timestamp"}, {"message"}}}
        \cup {[dtype |-> "datetime64[ns]",
               data |-> [col \in cols |->
                           IF col = "timestamp" THEN times ELSE texts]] :
                cols \in {{"timestamp", "message"}, {"timestamp", "message", "level"},
                          {"timestamp", "level"}}}

\* preprocessor.parse_logs(logs, log_type) for a DataFrame logs
ParseLogsDataFrame(logs, log_type) ==
    /\ built = "ok"
    /\ calls = 0
    /\ LET r == parse_logs_DataFrame(
                    logs, log_type, config,
                    IF "timestamp" \in DOMAIN logs.data /\ logs.dtype = "object"
                    THEN to_datetime(logs.data.timestamp,
                                     IF log_type = "apache"
                                     THEN config.apache_timestamp_format
                                     ELSE config.timestamp_format)
                    ELSE [exc |-> NoError, val |-> <<>>])
       IN  /\ err' = r.exc
           /\ ret' = r.out
           /\ table' = r.logs
    /\ inp' = [logs |-> logs, log_type |-> log_type]
    /\ op' = "parse_logs(DataFrame)"
    /\ calls' = calls + 1
    /\ prev_stats' = feature_stats
    /\ UNCHANGED <<args, config, built, feature_stats, files>>

\* lines 117-118: preprocessor.parse_logs(logs, log_type) for logs that is
\* neither a list nor a DataFrame, as the number 123 of the tests; logs
\* names the type of the value
ParseLogsOther(logs, log_type) ==
    /\ built = "ok"
    /\ calls = 0
    /\ err' = "ValueError"
    /\ ret' = NoTable
    /\ inp' = [logs |-> logs, log_type |-> log_type]
    /\ op' = "parse_logs(other)"
    /\ calls' = calls + 1
    /\ prev_stats' = feature_stats
    /\ UNCHANGED <<args, config, built, feature_stats, table, files>>

NextParse == \E log_type \in LogTypes : \E logs \in LogLists(log_type) : ParseLogs(logs, log_type)

SpecParse == InitParse /\ [][NextParse]_vars

\* parse_logs on what is no list
NextParseOther ==
    \E log_type \in LogTypes :
        \/ \E logs \in LogTables : ParseLogsDataFrame(logs, log_type)
        \/ \E logs \in {[type |-> "int"], [type |-> "str"], [type |-> "NoneType"]} :
              ParseLogsOther(logs, log_type)

SpecParseOther == InitParse /\ [][NextParseOther]_vars

(***************************************************************************)
(* The duration grammar of the configuration contract, stated on its own:  *)
(* <positive integer><unit>, unit one of s sec m min h hr d day in any     *)
(* letter case.                                                            *)
(***************************************************************************)
GrammarUnitSeconds(u) ==
    CASE u \in {<<"s">>, <<"s", "e", "c">>} -> 1
      [] u \in {<<"m">>, <<"m", "i", "n">>} -> 60
      [] u \in {<<"h">>, <<"h", "r">>} -> 3600
      [] u \in {<<"d">>, <<"d", "a", "y">>} -> 86400
      [] OTHER -> 0

\* s[1..k] is a positive integer and the rest of s is a unit
GrammarSplit(s, k) ==
    /\ \A i \in 1..k : s[i] \in Digits
    /\ IntOf(SubSeq(s, 1, k)) > 0
    /\ GrammarUnitSeconds(Lower(SubSeq(s, k + 1, Len(s)))) > 0

InGrammar(s) == \E k \in 1..(Len(s) - 1) : GrammarSplit(s, k)

\* the duration, in seconds, a string of the grammar denotes
GrammarSeconds(s) ==
    LET k == CHOOSE k \in 1..(Len(s) - 1) : GrammarSplit(s, k)
    IN  IntOf(SubSeq(s, 1, k)) * GrammarUnitSeconds(Lower(SubSeq(s, k + 1, Len(s))))

\* the arguments other than the two duration strings pass validation
CountsValid(a) ==
    /\ a.min_logs_per_window >= 1
    /\ a.max_logs_per_window = NoneInt
       \/ a.max_logs_per_window[1] >= a.min_logs_per_window

FeaturesValid(a) ==
    \A i \in 1..Len(a.basic_features) : a.basic_features[i] \in AllowedFeatures

MethodValid(a) == a.normalization_method \in {"minmax", "zscore"}

PatternsValid(a) ==
    /\ a.custom_patterns.dict
    /\ \A i \in 1..Len(a.custom_patterns.items) :
          RegexCompiles(a.custom_patterns.items[i][2])

(***************************************************************************)
(* C7: construction fails for every window_size that is not exactly a      *)
(* positive integer immediately followed by one of the units.  The code    *)
(* matches a prefix only and accepts a zero count, so this is violated.    *)
(***************************************************************************)
C7_NonGrammarWindowSizeRejected ==
    (op = "construct" /\ ~InGrammar(args.window_size)) => built = "failed"

C9_ValidatedFields ==
    /\ built = "ok"
       => (CountsValid(config) /\ FeaturesValid(config) /\ MethodValid(config))
    /\ (op = "construct"
        /\ ~(CountsValid(args) /\ FeaturesValid(args) /\ MethodValid(args)))
       => (built = "failed" /\ err # NoError /\ config = NoConfig)

C9_Witness ==
    /\ op = "construct"
    /\ built = "failed"
    /\ args.min_logs_per_window = 2
    /\ args.max_logs_per_window = Some(1)
    /\ InGrammar(args.window_size)
    /\ FeaturesValid(args) /\ MethodValid(args) /\ PatternsValid(args)
    /\ args.window_stride = NoneStr

(***************************************************************************)
(* C10: with window_stride unset the stride is the window duration; a      *)
(* window_stride that is set must be a duration string of the grammar,     *)
(* then get_stride_timedelta returns its duration, and otherwise           *)
(* construction fails.  The last part is violated for the strings C7's     *)
(* prefix match lets through.                                              *)
(***************************************************************************)
C10_StrideContract ==
    /\ (op = "get_stride_timedelta" /\ config.window_stride = NoneStr)
       => (err = NoError /\ ret = get_window_timedelta(config).delta)
    /\ (op = "get_stride_timedelta" /\ config.window_stride # NoneStr
        /\ InGrammar(config.window_stride))
       => (err = NoError /\ ret = GrammarSeconds(config.window_stride))
    /\ (op = "construct" /\ args.window_stride # NoneStr
        /\ ~InGrammar(args.window_stride))
       => built = "failed"

(***************************************************************************)
(* Vocabulary of the normalization claims.                                 *)
(***************************************************************************)
One == Num(1)

InUnitInterval(v) == IsNumber(v) /\ ~Less(v, Zero) /\ ~Less(One, v)

\* the column holds at least two different values
DistinctValues(vals) == Less(ColMin(vals), ColMax(vals))

\* the column holds values, all of them the same
ConstantColumn(vals) == Present(vals) # <<>> /\ ~DistinctValues(vals)

\* the statistics a normalization method computes from a column
ColumnStats(method, vals) ==
    IF method = "minmax" THEN [min |-> ColMin(vals), max |-> ColMax(vals)]
    ELSE [mean |-> ColMean(vals), std |-> ColStd(vals)]

\* a column rescaled with the statistics of entry
Rescaled(method, entry, vals) ==
    IF method = "minmax"
    THEN [k \in 1..Len(vals) |->
            IF Less(entry.min, entry.max)
            THEN RDiv(RSub(vals[k], entry.min), RSub(entry.max, entry.min))
            ELSE Zero]
    ELSE [k \in 1..Len(vals) |->
            IF Less(Zero, entry.std)
            THEN RDiv(RSub(vals[k], entry.mean), entry.std)
            ELSE Zero]

\* the statistics of entry have no spread
ZeroSpread(method, entry) ==
    IF method = "minmax"
    THEN IsNumber(entry.min) /\ entry.max = entry.min
    ELSE entry.std = <<0, 1, 2>>

Normalized == op = "normalize_features"

(***************************************************************************)
(* C3: a normalize call leaves every cached entry as it was, caches for a  *)
(* column seen for the first time the statistics of the table at hand, and *)
(* rescales every column with the cached entry.  By induction over the     *)
(* calls the entry of a column is the one computed from the first table    *)
(* that held it.                                                           *)
(***************************************************************************)
C3_CachedStatsReused ==
    Normalized =>
        /\ err = NoError
        /\ \A c \in DOMAIN prev_stats :
              c \in DOMAIN feature_stats /\ feature_stats[c] = prev_stats[c]
        /\ \A i \in 1..Len(inp) :
              /\ inp[i].name \in DOMAIN feature_stats
              /\ inp[i].name \notin DOMAIN prev_stats
                 => feature_stats[inp[i].name]
                        = ColumnStats(config.normalization_method, inp[i].vals)
              /\ inp[i].name \in DOMAIN prev_stats
                 => ret[i].vals = Rescaled(config.normalization_method,
                                           prev_stats[inp[i].name], inp[i].vals)

\* a second table whose own statistics differ from the cached ones
C3_Witness ==
    /\ Normalized
    /\ calls = 2
    /\ config.normalization_method = "minmax"
    /\ inp = <<[name |-> "x", vals |-> <<Num(3), Num(3)>>]>>
    /\ prev_stats = [x |-> [min |-> Num(1), max |-> Num(2)]]
    /\ feature_stats = prev_stats
    /\ ret = <<[name |-> "x", vals |-> <<Num(2), Num(2)>>]>>

(***************************************************************************)
(* C4, as claimed: under minmax every column with distinct values comes    *)
(* out within [0, 1] with its minimum at 0 and its maximum at 1, and a     *)
(* constant column comes out as 0 (missing values left aside).             *)
(***************************************************************************)
MinMaxColumnInUnitInterval(vals, out) ==
    /\ DistinctValues(vals)
       => \A k \in 1..Len(vals) :
             /\ IsNumber(vals[k]) => InUnitInterval(out[k])
             /\ vals[k] = ColMin(vals) => out[k] = Zero
             /\ vals[k] = ColMax(vals) => out[k] = One
    /\ ConstantColumn(vals) => \A k \in 1..Len(vals) : out[k] = Zero

C4_MinMaxUnitInterval ==
    (Normalized /\ config.normalization_method = "minmax" /\ err = NoError)
    => \A i \in 1..Len(inp) : MinMaxColumnInUnitInterval(inp[i].vals, ret[i].vals)

(***************************************************************************)
(* C4, amended: the same, for a column whose statistics are not cached     *)
(* when the call starts.                                                   *)
(***************************************************************************)
C4_MinMaxUnitIntervalFirstTable ==
    (Normalized /\ config.normalization_method = "minmax" /\ err = NoError)
    => \A i \in 1..Len(inp) :
          inp[i].name \notin DOMAIN prev_stats
          => MinMaxColumnInUnitInterval(inp[i].vals, ret[i].vals)

C4_Witness ==
    /\ Normalized
    /\ config.normalization_method = "minmax"
    /\ prev_stats = NoStats
    /\ Len(inp) = 2
    /\ inp[1].vals = <<Num(1), Num(2), Num(3)>>
    /\ ret[1].vals = <<Zero, <<1, 2, 1>>, One>>
    /\ inp[2].vals = <<Num(2), Num(2), Num(2)>>
    /\ ret[2].vals = <<Zero, Zero, Zero>>

(***************************************************************************)
(* C5: under both methods a column whose applied statistics have no spread *)
(* comes out as 0 in every row, no call raises, and no output is the       *)
(* result of a division by zero.                                           *)
(***************************************************************************)
C5_ZeroSpreadGivesZero ==
    Normalized =>
        /\ err = NoError
        /\ \A i \in 1..Len(inp) :
              /\ ZeroSpread(config.normalization_method, feature_stats[inp[i].name])
                 => \A k \in 1..Len(ret[i].vals) : ret[i].vals[k] = Zero
              /\ Len(ret[i].vals) = Len(inp[i].vals)
              /\ \A k \in 1..Len(ret[i].vals) : ret[i].vals[k] # DivZero

\* cached statistics without spread applied to a later table that has spread
C5_Witness ==
    /\ Normalized
    /\ config.normalization_method = "zscore"
    /\ calls = 2
    /\ prev_stats = [x |-> [mean |-> Num(2), std |-> <<0, 1, 2>>]]
    /\ inp = <<[name |-> "x", vals |-> <<Num(1), Num(3)>>]>>
    /\ ret = <<[name |-> "x", vals |-> <<Zero, Zero>>]>>

(***************************************************************************)
(* The windows of the windowing contract: half-open intervals of the       *)
(* length get_window_timedelta returns, starting at multiples of it.       *)
(***************************************************************************)
Windowed == op = "create_time_windows"

WindowSeconds == get_window_timedelta(config).delta

\* the records of the input that fall into the window starting at start
RecordsIn(start) ==
    Cardinality({k \in 1..Len(inp.rows) :
                    /\ start <= inp.rows[k].timestamp
                    /\ inp.rows[k].timestamp < start + WindowSeconds})

\* the start of the window that holds timestamp ts
WindowStart(ts) == ts - (ts % WindowSeconds)

\* some window holds at least min_logs_per_window records
SomeWindowPasses ==
    \E k \in 1..Len(inp.rows) :
        RecordsIn(WindowStart(inp.rows[k].timestamp)) >= config.min_logs_per_window

\* pandas reads the window size as the duration get_window_timedelta returns
PandasAgrees == PandasFreq(config.window_size) = {Tick(WindowSeconds)}

(***************************************************************************)
(* C1: every row of the aggregated output of create_time_windows belongs   *)
(* to a window that held at least min_logs_per_window records, so a        *)
(* window below the minimum between two valid windows leaves a gap in the  *)
(* output index.  Stated for the window sizes pandas reads as the          *)
(* configuration does, where the output labels are window starts.          *)
(***************************************************************************)
C1_DroppedWindowsLeaveGap ==
    (Windowed /\ err = NoError /\ PandasAgrees) =>
        \A k \in 1..Len(ret.index) :
            RecordsIn(ret.index[k]) >= config.min_logs_per_window

(***************************************************************************)
(* C2: create_time_windows raises exactly when no window holds at least    *)
(* min_logs_per_window records (an empty input included), and a call that  *)
(* returns never returns an empty table.                                   *)
(***************************************************************************)
C2_RaisesExactlyWhenNoWindowPasses ==
    Windowed =>
        /\ (err # NoError) <=> ~SomeWindowPasses
        /\ err = NoError => ret.index # <<>>

(***************************************************************************)
(* The lines of a list and the records parse_logs returns for them.        *)
(***************************************************************************)
ParsedList == op = "parse_logs"

\* m occurs in line as a run of consecutive characters
OccursIn(m, line) ==
    \E i \in 0..(Len(line) - Len(m)) : SubSeq(line, i + 1, i + Len(m)) = m

\* a list element no format can take a timestamp from: no string, or a
\* string without a digit
NoTimestampIn(line) == line = NoneStr \/ \A i \in 1..Len(line) : line[i] \notin Digits

\* the lines of the model that are well formed for the log type in use
WellFormed(log_type, c) ==
    CASE log_type = "default" ->
            IF c.timestamp_format = "%Y-%m-%d %H:%M:%S"
            THEN {LogLine.DefaultLine1, LogLine.DefaultLine2} ELSE {}
      [] log_type = "hdfs" -> {LogLine.HdfsLine1, LogLine.HdfsLine2}
      [] log_type = "apache" -> {LogLine.ApacheLine1, LogLine.ApacheLine2}
      [] log_type = "healthapp" -> {LogLine.HealthLine1, LogLine.HealthLine2}

\* f names, for every record, the line it came from: lines further down
\* the list for records further down, each at most once
SourceLines(f) ==
    /\ \A j, k \in DOMAIN f : j < k => f[j] < f[k]
    /\ \A k \in DOMAIN f :
          /\ ~NoTimestampIn(inp.logs[f[k]])
          /\ ret[k].message # <<>>
          /\ OccursIn(ret[k].message, inp.logs[f[k]])
    /\ \A i \in 1..Len(inp.logs) :
          inp.logs[i] \in WellFormed(inp.log_type, config) => \E k \in DOMAIN f : f[k] = i

(***************************************************************************)
(* C6: parse_logs on a list never raises, whatever the lines and the       *)
(* format; it returns at most one record per line, none for a line that    *)
(* holds no timestamp, the records in the order of their lines, and a      *)
(* well-formed line gives its record whatever lines lie before it.         *)
(***************************************************************************)
C6_ParseListNeverRaises ==
    ParsedList =>
        /\ err = NoError
        /\ Len(ret) <= Len(inp.logs)
        /\ \E f \in [1..Len(ret) -> 1..Len(inp.logs)] : SourceLines(f)

\* a malformed line lies between two well-formed HDFS lines, and both lines
\* gave their records in order
C6_Witness ==
    /\ ParsedList
    /\ inp.log_type = "hdfs"
    /\ inp.logs = <<LogLine.HdfsLine1, LogLine.HdfsBadDate, LogLine.HdfsLine2>>
    /\ Len(ret) = 2
    /\ ret[1].timestamp = <<2008, 11, 9, 20, 35, 18>>
    /\ ret[2].timestamp = <<2008, 11, 9, 20, 35, 19>>
    /\ ret[2].message = Slice(LogLine.HdfsLine2, 18, Len(LogLine.HdfsLine2))

(***************************************************************************)
(* Vocabulary of the claims on custom_patterns.                            *)
(***************************************************************************)
\* the items of a map whose pattern does not compile
MalformedItems(a) ==
    {i \in 1..Len(a.custom_patterns.items) :
        ~RegexCompiles(a.custom_patterns.items[i][2])}

\* the error message names the key of item i
NamesKey(message, a, i) ==
    message = "Invalid regex pattern for " \o a.custom_patterns.items[i][1]
              \o ": " \o a.custom_patterns.items[i][2]

(***************************************************************************)
(* C11: a custom_patterns map whose values all compile is accepted (the    *)
(* other arguments valid); a map with a malformed pattern makes            *)
(* construction fail, and the error names the key of a malformed pattern   *)
(* whenever the window size and the method, which are validated first,     *)
(* are valid.                                                              *)
(***************************************************************************)
C11_MalformedPatternNamed ==
    /\ (/\ op = "construct"
        /\ PatternsValid(args)
        /\ InGrammar(args.window_size)
        /\ args.window_stride = NoneStr \/ InGrammar(args.window_stride)
        /\ CountsValid(args) /\ FeaturesValid(args) /\ MethodValid(args))
       => (built = "ok" /\ config.custom_patterns = args.custom_patterns)
    /\ (op = "construct" /\ args.custom_patterns.dict
        /\ MalformedItems(args) # {})
       => /\ built = "failed" /\ config = NoConfig
          /\ (InGrammar(args.window_size) /\ MethodValid(args))
             => \E i \in MalformedItems(args) : NamesKey(err, args, i)

C11_Witness ==
    /\ op = "construct"
    /\ built = "failed"
    /\ args.custom_patterns.dict
    /\ MalformedItems(args) = {2, 3}
    /\ err = "Invalid regex pattern for test2: ["

(***************************************************************************)
(* A configuration in use: PreprocessingConfig is a plain dataclass, so a  *)
(* caller holding the instance can assign its fields, as the tests do      *)
(* with preprocessor.config.normalization_method, and nothing validates    *)
(* the assignment.                                                         *)
(***************************************************************************)
InitUse ==
    /\ args \in {[DefaultArgs EXCEPT !.normalization_method = m,
                                     !.min_logs_per_window = n] :
                    m \in {"minmax", "zscore", "invalid"}, n \in 0..MaxCount}
    /\ config = NoConfig
    /\ built = "no"
    /\ op = "none"
    /\ err = NoError
    /\ inp = <<>>
    /\ ret = <<>>
    /\ feature_stats = NoStats
    /\ prev_stats = NoStats
    /\ calls = 0
    /\ table = NoTable
    /\ files = NoFiles

\* config.<name> = value
SetAttr(name, value) ==
    /\ built = "ok"
    /\ config' = [config EXCEPT ![name] = value]
    /\ op' = "setattr"
    /\ err' = NoError
    /\ UNCHANGED <<args, built, inp, ret, feature_stats, prev_stats, calls, table, files>>

NextUse ==
    \/ Construct
    \/ \E m \in {"minmax", "zscore", "invalid"} : SetAttr("normalization_method", m)
    \/ \E n \in 0..MaxCount : SetAttr("min_logs_per_window", n)
    \/ \E df \in {t \in NormTables : Len(t) = 2} : NormalizeFeatures(df)
    \/ GetWindowTimedelta

SpecUse == InitUse /\ [][NextUse]_vars

(***************************************************************************)
(* C12: after a successful construction the instance satisfies the         *)
(* validation rules in every reachable state, and no later operation       *)
(* raises for a reason that lies in the configuration.  Violated: a field  *)
(* assigned after construction is not validated, and normalize_features    *)
(* then raises for the unknown method.                                     *)
(***************************************************************************)
C12_ConfigurationStaysValid ==
    /\ built = "ok" => __post_init__(config) = NoError
    /\ op = "normalize_features" => ~(err = "ValueError" /\ ~MethodValid(config))

(***************************************************************************)
(* C13: for every valid configuration c, from_dict(to_dict(c)) succeeds    *)
(* and equals c in every field; from_dict applied to a map of values that  *)
(* violate a validation rule fails with the error that direct construction *)
(* with those values raises.                                               *)
(***************************************************************************)
C13_DictRoundTrip ==
    /\ (op = "from_dict" /\ built = "ok" /\ __post_init__(config) = NoError
        /\ inp = to_dict(config))
       => /\ ret.exc = NoError
          /\ \A k \in DOMAIN DefaultArgs : ret.config[k] = config[k]
    /\ (op = "from_dict" /\ built = "failed"
        /\ DOMAIN inp = DOMAIN args /\ \A k \in DOMAIN args : inp[k] = args[k])
       => (ret.exc = "ValueError" /\ ret.msg = err /\ ret.config = NoConfig)

C13_Witness ==
    /\ op = "from_dict"
    /\ built = "ok"
    /\ inp = to_dict(config)
    /\ config.apache_timestamp_format = "%d/%b/%Y:%H:%M:%S"
    /\ config.window_stride = <<"3", "0", "m", "i", "n">>
    /\ ret.exc = NoError
    /\ ret.config = config

(***************************************************************************)
(* Vocabulary of the claims on the line formats.                           *)
(***************************************************************************)
\* the characters a+1..b of line (offsets a..b-1) are digits
DigitsIn(line, a, b) == b <= Len(line) /\ \A k \in (a + 1)..b : line[k] \in Digits

\* the number written at offsets a..b-1
NumberIn(line, a, b) == IntOf(SubSeq(line, a + 1, b))

\* the offset behind a substring of the form YYYY-MM-DD HH:MM:SS that begins
\* at offset i of line, w being the length of the whitespace between date
\* and time; -1 if no such substring begins there
IsoEndFor(line, i, w) ==
    IF /\ DigitsIn(line, i, i + 4) /\ DigitsIn(line, i + 5, i + 7)
       /\ DigitsIn(line, i + 8, i + 10)
       /\ line[i + 5] = "-" /\ line[i + 8] = "-"
       /\ w >= 1
       /\ DigitsIn(line, i + 10 + w, i + 12 + w)
       /\ DigitsIn(line, i + 13 + w, i + 15 + w)
       /\ DigitsIn(line, i + 16 + w, i + 18 + w)
       /\ line[i + 13 + w] = ":" /\ line[i + 16 + w] = ":"
    THEN i + 18 + w
    ELSE -1

IsoEnd(line, i) == IsoEndFor(line, i, RunLen(line, i + 11, Whitespace))

\* the offsets of line at which such a substring begins
IsoStarts(line) ==
    IF line = NoneStr THEN {} ELSE {i \in 0..Len(line) : IsoEnd(line, i) # -1}

\* the substring at offsets i..e-1 read with the configured format: the six
\* numbers in the order the format names them, as a date and a time of day
IsoTime(line, i, e, format) ==
    IF format = "%Y-%m-%d %H:%M:%S"
    THEN datetime(NumberIn(line, i, i + 4), NumberIn(line, i + 5, i + 7),
                  NumberIn(line, i + 8, i + 10), NumberIn(line, e - 8, e - 6),
                  NumberIn(line, e - 5, e - 3), NumberIn(line, e - 2, e))
    ELSE datetime(NumberIn(line, i, i + 4), NumberIn(line, i + 8, i + 10),
                  NumberIn(line, i + 5, i + 7), NumberIn(line, e - 8, e - 6),
                  NumberIn(line, e - 5, e - 3), NumberIn(line, e - 2, e))

\* the record of timestamp t and message m, if t is a time and m is not empty
RecordIf(t, m) ==
    IF t.exc = NoError /\ m # <<>> THEN <<[timestamp |-> t.val, message |-> m]>>
    ELSE <<>>

\* the records a line of log type default is to give: one, of the first
\* substring of the form and the trimmed text behind it, or none
DefaultRecords(line, format) ==
    IF IsoStarts(line) = {} THEN <<>>
    ELSE RecordIf(IsoTime(line, MinOf(IsoStarts(line)),
                          IsoEnd(line, MinOf(IsoStarts(line))), format),
                  strip(Slice(line, IsoEnd(line, MinOf(IsoStarts(line))), Len(line))))

ParsedAs(log_type) == op = "parse_logs" /\ inp.log_type = log_type

(***************************************************************************)
(* C14 as stated: for log type default every line that contains a          *)
(* substring of the form YYYY-MM-DD HH:MM:SS yields a record, of the first *)
(* such substring parsed with the configured format and of the trimmed     *)
(* text behind it; a line without such a substring yields none.  Violated  *)
(* by a line whose substring names no date and by a line with nothing      *)
(* behind the timestamp.                                                   *)
(***************************************************************************)
C14_DefaultLineYieldsRecord ==
    (ParsedAs("default") /\ Len(inp.logs) = 1)
    => IF IsoStarts(inp.logs[1]) = {} THEN ret = <<>>
       ELSE /\ Len(ret) = 1
            /\ ret[1].message =
                   strip(Slice(inp.logs[1],
                               IsoEnd(inp.logs[1], MinOf(IsoStarts(inp.logs[1]))),
                               Len(inp.logs[1])))

(***************************************************************************)
(* C14 amended: a line yields a record exactly when it contains such a     *)
(* substring, the first one names a date and a time of day under the       *)
(* configured format, and the text behind it is not blank; the record is   *)
(* that timestamp with the trimmed text behind the substring.  The records *)
(* of a list are those of its lines in order.                              *)
(***************************************************************************)
C14_DefaultRecordOfValidStamp ==
    ParsedAs("default")
    => /\ err = NoError
       /\ ret = Concat([k \in 1..Len(inp.logs) |->
                          DefaultRecords(inp.logs[k], config.timestamp_format)])

C14_Witness ==
    /\ ParsedAs("default")
    /\ inp.logs = <<LogLine.DefaultLateStamp>>
    /\ config.timestamp_format = "%Y-%m-%d %H:%M:%S"
    /\ Len(ret) = 1
    /\ ret[1].timestamp = <<2024, 3, 15, 10, 3, 0>>
    /\ ret[1].message = SubSeq(LogLine.DefaultLateStamp, 29, 64)

\* line split at runs of whitespace into at most maxsplit + 1 parts, the last
\* part being the rest of the line behind the whitespace
RECURSIVE WhitespaceParts(_, _)
WhitespaceParts(line, maxsplit) ==
    LET lead == RunLen(line, 1, Whitespace)
        word == RunLen(line, lead + 1, {line[k] : k \in 1..Len(line)} \ Whitespace)
    IN  IF lead = Len(line) THEN <<>>
        ELSE IF maxsplit = 0 THEN <<SubSeq(line, lead + 1, Len(line))>>
        ELSE <<SubSeq(line, lead + 1, lead + word)>>
             \o WhitespaceParts(SubSeq(line, lead + word + 1, Len(line)), maxsplit - 1)

\* the time the six digits of date (YYMMDD) and of time (HHMMSS) name, the
\* year being 2000 + YY
HdfsTime(date, time) ==
    IF Len(date) = 6 /\ Len(time) = 6 /\ DigitsIn(date, 0, 6) /\ DigitsIn(time, 0, 6)
    THEN datetime(2000 + NumberIn(date, 0, 2), NumberIn(date, 2, 4),
                  NumberIn(date, 4, 6), NumberIn(time, 0, 2),
                  NumberIn(time, 2, 4), NumberIn(time, 4, 6))
    ELSE [exc |-> "ValueError", val |-> NoTime]

\* the records a line of log type hdfs is to give, parts being its
\* whitespace-separated parts
HdfsRecords(parts) ==
    IF Len(parts) < 4 THEN <<>>
    ELSE RecordIf(HdfsTime(parts[1], parts[2]), parts[4])

(***************************************************************************)
(* C15: for log type hdfs a line is split on whitespace into at most four  *)
(* parts, date, time, thread id and remainder; a line of four parts whose  *)
(* date and time name a time gives the record of that time, the year being *)
(* 2000 + YY, with the remainder as message; a line of fewer parts, or     *)
(* with a field that is no number or out of range, gives no record and no  *)
(* error.  Violated: the code splits at single spaces, so a line with two  *)
(* spaces between its fields gives no record.                              *)
(***************************************************************************)
C15_HdfsSplitOnWhitespace ==
    (ParsedAs("hdfs") /\ Len(inp.logs) = 1 /\ inp.logs[1] # NoneStr)
    => /\ err = NoError
       /\ ret = HdfsRecords(WhitespaceParts(inp.logs[1], 3))

\* the HDFS line of the example has been parsed on its own
HdfsExampleParsed == ParsedAs("hdfs") /\ inp.logs = <<LogLine.HdfsLine1>>

(***************************************************************************)
(* C16 as stated: the HDFS line "081109 203518 148 INFO dfs.DataNode$...   *)
(* terminating" gives exactly one record, with timestamp 2008-11-09        *)
(* 20:35:18 and the message "148 INFO dfs.DataNode$... terminating", the   *)
(* line from its thread id on.  Violated: the thread id is the third part  *)
(* of the split and is not in the message.                                 *)
(***************************************************************************)
C16_HdfsExampleWithThreadId ==
    HdfsExampleParsed
    => /\ Len(ret) = 1
       /\ ret[1].timestamp = <<2008, 11, 9, 20, 35, 18>>
       /\ SubSeq(LogLine.HdfsLine1, 15, 22) = <<"1", "4", "8", " ", "I", "N", "F", "O">>
       /\ ret[1].message = SubSeq(LogLine.HdfsLine1, 15, Len(LogLine.HdfsLine1))

(***************************************************************************)
(* C16 amended: the line gives exactly one record, with timestamp          *)
(* 2008-11-09 20:35:18 and the message "INFO dfs.DataNode$...              *)
(* terminating", the line from behind its thread id on.                    *)
(***************************************************************************)
C16_HdfsExample ==
    HdfsExampleParsed
    => /\ err = NoError
       /\ Len(ret) = 1
       /\ ret[1].timestamp = <<2008, 11, 9, 20, 35, 18>>
       /\ SubSeq(LogLine.HdfsLine1, 19, 27) =
              <<"I", "N", "F", "O", " ", "d", "f", "s", ".">>
       /\ ret[1].message = SubSeq(LogLine.HdfsLine1, 19, Len(LogLine.HdfsLine1))

C16_Witness ==
    /\ HdfsExampleParsed
    /\ Len(ret) = 1
    /\ Len(ret[1].message) = Len(LogLine.HdfsLine1) - 18
    /\ SubSeq(ret[1].message, 1, 5) = <<"I", "N", "F", "O", " ">>
    /\ SubSeq(ret[1].message, Len(ret[1].message) - 10, Len(ret[1].message)) =
           <<"t", "e", "r", "m", "i", "n", "a", "t", "i", "n", "g">>

\* the text between the first "[" of line and the first "]" behind it
FirstBracketed(line) ==
    Slice(line, find(line, "[", 0) + 1, find(line, "]", find(line, "[", 0)))

\* the text behind the second "]" of line, trimmed
AfterSecondBracket(line) ==
    strip(Slice(line, find(line, "]", find(line, "]", 0) + 1) + 1, Len(line)))

(***************************************************************************)
(* C17: for log type apache the timestamp of a line's record is the first  *)
(* bracketed substring of the line parsed with the configured format       *)
(* config.apache_timestamp_format, and its message is the trimmed text     *)
(* behind the second "]" of the line.  Violated: the code parses with a    *)
(* fixed format, whatever the configuration says.                          *)
(***************************************************************************)
C17_ApacheConfiguredFormat ==
    (ParsedAs("apache") /\ Len(inp.logs) = 1 /\ Len(ret) = 1
     /\ inp.logs[1][1] = "[")
    => /\ strptime(FirstBracketed(inp.logs[1]), config.apache_timestamp_format).exc
             = NoError
       /\ ret[1].timestamp =
             strptime(FirstBracketed(inp.logs[1]), config.apache_timestamp_format).val
       /\ ret[1].message = AfterSecondBracket(inp.logs[1])

\* the time the portion YYYYMMDD-HH:MM:SS at the head of part names
HealthTime(part) ==
    IF /\ DigitsIn(part, 0, 8) /\ DigitsIn(part, 9, 11) /\ DigitsIn(part, 12, 14)
       /\ DigitsIn(part, 15, 17)
       /\ part[9] = "-" /\ part[12] = ":" /\ part[15] = ":"
       /\ Len(part) = 17 \/ part[18] = ":"
    THEN datetime(NumberIn(part, 0, 4), NumberIn(part, 4, 6), NumberIn(part, 6, 8),
                  NumberIn(part, 9, 11), NumberIn(part, 12, 14),
                  NumberIn(part, 15, 17))
    ELSE [exc |-> "ValueError", val |-> NoTime]

\* the records a line of log type healthapp is to give, parts being its
\* parts between the "|" and rest the line behind its first "|"
HealthAppRecords(parts, rest) ==
    IF Len(parts) < 4 THEN <<>> ELSE RecordIf(HealthTime(parts[1]), rest)

(***************************************************************************)
(* C18: for log type healthapp a line of four or more parts between "|"    *)
(* gives the record whose timestamp is the YYYYMMDD-HH:MM:SS portion of    *)
(* the first part and whose message is all the parts behind the first,     *)
(* joined with "|", however many there are; a line of fewer than four      *)
(* parts gives no record.  Violated: the code joins the second, third and  *)
(* fourth part only.                                                       *)
(***************************************************************************)
C18_HealthAppMessageKeepsAllParts ==
    (ParsedAs("healthapp") /\ Len(inp.logs) = 1 /\ inp.logs[1] # NoneStr)
    => ret = HealthAppRecords(split(inp.logs[1], "|", -1),
                              Slice(inp.logs[1], find(inp.logs[1], "|", 0) + 1,
                                    Len(inp.logs[1])))

(***************************************************************************)
(* Vocabulary of the claim on the shape of parse_logs' input.              *)
(***************************************************************************)
\* the number of rows of a table
RowCount(df) == Len(df.data[CHOOSE col \in DOMAIN df.data : TRUE])

HasBothColumns(df) == {"timestamp", "message"} \subseteq DOMAIN df.data

\* the call raised and returned nothing
RaisedAtOnce == err # NoError /\ ret = NoTable

(***************************************************************************)
(* C19: parse_logs raises, with no partial result, for an input that is    *)
(* neither a list nor a table and for a table that lacks the column        *)
(* timestamp or the column message; a table that has both columns is       *)
(* accepted and returned with as many rows as it came with.  Violated: a   *)
(* table with both columns whose timestamps are strings that do not parse  *)
(* with the configured format makes the call raise.                        *)
(***************************************************************************)
C19_InputShape ==
    /\ op = "parse_logs(other)" => RaisedAtOnce
    /\ (op = "parse_logs(DataFrame)" /\ ~HasBothColumns(inp.logs)) => RaisedAtOnce
    /\ (op = "parse_logs(DataFrame)" /\ HasBothColumns(inp.logs))
       => /\ err = NoError
          /\ HasBothColumns(ret)
          /\ RowCount(ret) = RowCount(inp.logs)

(***************************************************************************)
(* Feature extraction: extract_basic_features and extract_pattern_features *)
(* of one message under a constructed configuration.                       *)
(***************************************************************************)
\* len(re.findall(pattern, string)), with re.IGNORECASE when ignorecase: the
\* number of matches found scanning from the left, each search starting
\* where the match before ended.  A pattern is read as a sequence (seq), an
\* ordered choice (alt), a greedy repeat of min to max times (rep, max -1
\* for no limit), a character of a set (in) or outside it (notin), or the
\* word boundary \b (b); ends(r, i) lists where a match of r begun before
\* character i may end, in the order the backtracking matcher tries them.
\* None of the patterns tried matches the empty string.
findall(pattern, string, ignorecase) ==
    LET Fold(ch) == IF ignorecase THEN LowerChar(ch) ELSE ch
        In(set) == [t |-> "in", set |-> set]
        Sq(of) == [t |-> "seq", of |-> of]
        Or(of) == [t |-> "alt", of |-> of]
        Rep(body, min, max) == [t |-> "rep", body |-> body, min |-> min, max |-> max]
        Lit(w) == Sq([k \in 1..Len(w) |-> In({w[k]})])
        Word == Letters \cup Digits \cup {"_"}
        d == In(Digits)
        dot == In({"."})
        B == [t |-> "b"]
        compiled ==
            CASE pattern = "error|exception|fail|failed|failure" ->
                   Or(<<Lit(<<"e", "r", "r", "o", "r">>),
                         Lit(<<"e", "x", "c", "e", "p", "t", "i", "o", "n">>),
                         Lit(<<"f", "a", "i", "l">>),
                         Lit(<<"f", "a", "i", "l", "e", "d">>),
                         Lit(<<"f", "a", "i", "l", "u", "r", "e">>)>>)
              [] pattern = "warn|warning|high|critical" ->
                   Or(<<Lit(<<"w", "a", "r", "n">>),
                         Lit(<<"w", "a", "r", "n", "i", "n", "g">>),
                         Lit(<<"h", "i", "g", "h">>),
                         Lit(<<"c", "r", "i", "t", "i", "c", "a", "l">>)>>)
              [] pattern = "\\b\\d{1,3}\\.\\d{1,3}\\.\\d{1,3}\\.\\d{1,3}\\b" ->
                   Sq(<<B, Rep(d, 1, 3), dot, Rep(d, 1, 3), dot,
                         Rep(d, 1, 3), dot, Rep(d, 1, 3), B>>)
              [] pattern = "\\d+%|\\d+(?:\\.\\d+)?(?:GB|MB|KB|ms|sec)" ->
                   Or(<<Sq(<<Rep(d, 1, -1), In({"%"})>>),
                         Sq(<<Rep(d, 1, -1),
                               Rep(Sq(<<dot, Rep(d, 1, -1)>>), 0, 1),
                               Or(<<Lit(<<"G", "B">>),
                                     Lit(<<"M", "B">>),
                                     Lit(<<"K", "B">>),
                                     Lit(<<"m", "s">>),
                                     Lit(<<"s", "e", "c">>)>>)>>)>>)
              [] pattern = "user\\s*\\w+|username|userid" ->
                   Or(<<Sq(<<Lit(<<"u", "s", "e", "r">>),
                               Rep(In(Whitespace), 0, -1), Rep(In(Word), 1, -1)>>),
                         Lit(<<"u", "s", "e", "r", "n", "a", "m", "e">>),
                         Lit(<<"u", "s", "e", "r", "i", "d">>)>>)
              [] pattern = "error|failed|failure" ->
                   Or(<<Lit(<<"e", "r", "r", "o", "r">>),
                         Lit(<<"f", "a", "i", "l", "e", "d">>),
                         Lit(<<"f", "a", "i", "l", "u", "r", "e">>)>>)
              [] pattern = "warning|high|critical" ->
                   Or(<<Lit(<<"w", "a", "r", "n", "i", "n", "g">>),
                         Lit(<<"h", "i", "g", "h">>),
                         Lit(<<"c", "r", "i", "t", "i", "c", "a", "l">>)>>)
              [] pattern = "\\d+%|\\d+GB" ->
                   Or(<<Sq(<<Rep(d, 1, -1), In({"%"})>>),
                         Sq(<<Rep(d, 1, -1), Lit(<<"G", "B">>)>>)>>)
              [] pattern = "\\d+" -> Rep(d, 1, -1)
              [] pattern = "[a-z]+" -> Rep(In(LowerLetters), 1, -1)
              [] pattern = "\\b\\w+\\b" -> Sq(<<B, Rep(In(Word), 1, -1), B>>)
              [] pattern = "[^a-zA-Z0-9\\s]" ->
                   [t |-> "notin", set |-> Letters \cup Digits \cup Whitespace]
        IsWord(k) == k \in 1..Len(string) /\ string[k] \in Word
        RECURSIVE ends(_, _), each(_, _), count(_)
        ends(r, i) ==
            CASE r.t = "in" ->
                   IF i <= Len(string)
                      /\ Fold(string[i]) \in {Fold(ch) : ch \in r.set}
                   THEN <<i + 1>> ELSE <<>>
              [] r.t = "notin" ->
                   IF i <= Len(string) /\ string[i] \notin r.set
                   THEN <<i + 1>> ELSE <<>>
              [] r.t = "b" -> IF IsWord(i - 1) # IsWord(i) THEN <<i>> ELSE <<>>
              [] r.t = "seq" ->
                   IF r.of = <<>> THEN <<i>>
                   ELSE each(ends(Head(r.of), i), Sq(Tail(r.of)))
              [] r.t = "alt" ->
                   IF r.of = <<>> THEN <<>>
                   ELSE ends(Head(r.of), i) \o ends(Or(Tail(r.of)), i)
              [] r.t = "rep" ->
                   (IF r.max = 0 THEN <<>>
                    ELSE each(SelectSeq(ends(r.body, i), LAMBDA e : e > i),
                              Rep(r.body,
                                  IF r.min > 0 THEN r.min - 1 ELSE 0,
                                  IF r.max > 0 THEN r.max - 1 ELSE r.max)))
                   \o (IF r.min = 0 THEN <<i>> ELSE <<>>)
        each(starts, r) ==
            IF starts = <<>> THEN <<>>
            ELSE ends(r, Head(starts)) \o each(Tail(starts), r)
        count(i) ==
            IF i > Len(string) THEN 0
            ELSE IF ends(compiled, i) = <<>> THEN count(i + 1)
            ELSE 1 + count(Head(ends(compiled, i)))
    IN  count(1)

\* lines 120-149: extract_basic_features(message); each of the six values
\* is put into the dict if its name is in config.basic_features
extract_basic_features(message, c) ==
    LET value ==
            [log_length |-> Len(message),
             word_count |->
                 Cardinality({i \in 1..Len(message) :
                                /\ message[i] \notin Whitespace
                                /\ (i = 1 \/ message[i - 1] \in Whitespace)}),
             numeric_count |-> findall("\\d+", message, FALSE),
             special_char_count |-> findall("[^a-zA-Z0-9\\s]", message, FALSE),
             uppercase_count |->
                 Cardinality({i \in 1..Len(message) : message[i] \in UpperLetters}),
             lowercase_count |->
                 Cardinality({i \in 1..Len(message) : message[i] \in LowerLetters})]
    IN  [name \in {n \in DOMAIN value :
                     \E i \in 1..Len(c.basic_features) : c.basic_features[i] = n}
            |-> value[name]]

\* lines 151-168 without the early return for pattern_features
extract_pattern_features_always(message, c) ==
    LET items == c.custom_patterns.items
    IN  IF \E i \in 1..Len(items) : ~RegexCompiles(items[i][2])
        THEN [exc |-> "re.error", features |-> <<>>]
        ELSE [exc |-> NoError,
              features |->
                  [key \in {"pattern_" \o items[i][1] : i \in 1..Len(items)} |->
                      LET i == CHOOSE i \in 1..Len(items) :
                                  "pattern_" \o items[i][1] = key
                      IN  findall(items[i][2], message, TRUE)]]

\* lines 151-168: extract_pattern_features(message); re.findall raises
\* re.error for a pattern that does not compile
extract_pattern_features(message, c) ==
    IF ~c.pattern_features THEN [exc |-> NoError, features |-> <<>>]
    ELSE LET items == c.custom_patterns.items
         IN  IF \E i \in 1..Len(items) : ~RegexCompiles(items[i][2])
             THEN [exc |-> "re.error", features |-> <<>>]
             ELSE [exc |-> NoError,
                   features |->
                       [key \in {"pattern_" \o items[i][1] : i \in 1..Len(items)} |->
                           LET i == CHOOSE i \in 1..Len(items) :
                                       "pattern_" \o items[i][1] = key
                           IN  findall(items[i][2], message, TRUE)]]

\* the configurations tried: the feature fields vary, the rest is default
InitFeatures ==
    /\ args \in {[DefaultArgs EXCEPT !.basic_features = bf,
                                     !.pattern_features = pf,
                                     !.custom_patterns = cp] :
                    bf \in {DefaultArgs.basic_features, <<>>,
                            <<"log_length", "word_count", "numeric_count">>,
                            <<"uppercase_count", "word_count", "uppercase_count">>,
                            <<"log_length", "invalid_feature">>},
                    pf \in BOOLEAN,
                    cp \in {DefaultArgs.custom_patterns, Dict(<<>>),
                            Dict(<<<<"error", "error|failed|failure">>,
                                   <<"warning", "warning|high|critical">>,
                                   <<"metrics", "\\d+%|\\d+GB">>>>),
                            Dict(<<<<"test1", "\\d+">>, <<"test2", "[a-z]+">>,
                                   <<"test3", "\\b\\w+\\b">>>>),
                            Dict(<<<<"test", "[">>>>)}}
    /\ config = NoConfig
    /\ built = "no"
    /\ op = "none"
    /\ err = NoError
    /\ inp = "none"
    /\ ret = "none"
    /\ feature_stats = NoStats
    /\ prev_stats = NoStats
    /\ calls = 0
    /\ table = NoTable
    /\ files = NoFiles

\* lines 281-285, one row of process: features = {}, updated with the basic
\* features of the message and then with its pattern features
ExtractFeatures(message) ==
    /\ built = "ok"
    /\ calls = 0
    /\ calls' = calls + 1
    /\ LET basic == extract_basic_features(message, config)
           pattern == extract_pattern_features(message, config)
       IN  /\ err' = pattern.exc
           /\ ret' = IF pattern.exc = NoError THEN pattern.features @@ basic
                     ELSE <<>>
    /\ inp' = message
    /\ op' = "extract_features"
    /\ UNCHANGED <<args, config, built, feature_stats, prev_stats, table, files>>

\* the messages tried: the empty one, those of the tests, and some with an
\* address, a size, a user, blanks only, digits inside a word
NextFeatures ==
    \/ Construct
    \/ \E message \in
           {<<>>,
            <<"E", "R", "R", "O", "R", ":", " ", "D", "a", "t", "a", "b",
              "a", "s", "e", " ", "c", "o", "n", "n", "e", "c", "t", "i",
              "o", "n", " ", "f", "a", "i", "l", "e", "d", " ", "a", "f",
              "t", "e", "r", " ", "3", " ", "r", "e", "t", "r", "i", "e",
              "s", "!">>,
            <<"E", "R", "R", "O", "R", ":", " ", "H", "i", "g", "h", " ",
              "C", "P", "U", " ", "u", "s", "a", "g", "e", " ", "a", "t",
              " ", "9", "5", "%", " ", "d", "e", "t", "e", "c", "t", "e",
              "d">>,
            <<"u", "s", "e", "r", " ", " ", "a", "d", "m", "i", "n", " ",
              "f", "r", "o", "m", " ", "1", "0", ".", "0", ".", "0", ".",
              "1", " ", "u", "s", "e", "d", " ", "1", ".", "5", "G", "B">>,
            <<" ", "\t", " ">>,
            <<"F", "a", "i", "l", "u", "r", "e", "_", "2", " ", "w", "a",
              "r", "n", "1", "2", "3", "4", ".", "5", ".", "6", ".", "7">>} :
         ExtractFeatures(message)

SpecFeatures == InitFeatures /\ [][NextFeatures]_vars


(***************************************************************************)
(* Vocabulary of the claim on the keys of a feature vector.                *)
(***************************************************************************)
\* the basic feature names a configuration enables
EnabledBasic(c) == {c.basic_features[i] : i \in 1..Len(c.basic_features)}

\* pattern_<name> for every pattern a configuration holds
PatternKeys(c) ==
    {"pattern_" \o c.custom_patterns.items[i][1] :
        i \in 1..Len(c.custom_patterns.items)}

\* the keys a configuration asks for
FeatureKeys(c) ==
    EnabledBasic(c) \cup (IF c.pattern_features THEN PatternKeys(c) ELSE {})

(***************************************************************************)
(* C20: for every message, the empty one included, feature extraction      *)
(* does not fail, and the keys of the feature vector are the enabled basic *)
(* feature names together with pattern_<name> for every configured pattern *)
(* when pattern features are enabled, and no pattern key when they are     *)
(* disabled; the keys are thus fixed by the configuration alone; for the   *)
(* empty message every basic feature is 0.                                 *)
(***************************************************************************)
C20_FeatureKeys ==
    op = "extract_features"
    => /\ err = NoError
       /\ DOMAIN ret = FeatureKeys(config)
       /\ inp = <<>> => \A name \in EnabledBasic(config) : ret[name] = 0

\* C20: the empty message, under a configuration that enables three basic
\* features and holds patterns but has pattern features disabled, gave
\* three zeros and no pattern key
C20_Witness ==
    /\ op = "extract_features"
    /\ inp = <<>>
    /\ ~config.pattern_features
    /\ config.custom_patterns.items # <<>>
    /\ ret = [log_length |-> 0, word_count |-> 0, numeric_count |-> 0]

(***************************************************************************)
(* Vocabulary of the claim on the records kept of a window.                *)
(***************************************************************************)
\* the positions in the input of the records of the window starting at start
MembersOf(start) ==
    {k \in 1..Len(inp.rows) :
        /\ start <= inp.rows[k].timestamp
        /\ inp.rows[k].timestamp < start + WindowSeconds}

\* the ways to pick the earliest n members of a window (all of them when the
\* window holds no more than n): no member left out is earlier than one kept
EarliestOf(members, n) ==
    {kept \in SUBSET members :
        /\ Cardinality(kept) = IF n < Cardinality(members) THEN n
                               ELSE Cardinality(members)
        /\ \A i \in kept : \A j \in members \ kept :
              inp.rows[i].timestamp <= inp.rows[j].timestamp}

\* the values of column j of the records at the positions kept
ValuesAt(kept, j) ==
    LET at == SelectSeq([k \in 1..Len(inp.rows) |-> k], LAMBDA k : k \in kept)
    IN  [k \in 1..Len(at) |-> inp.rows[at[k]].vals[j]]

\* output row k holds the four aggregates of the records kept, for every column
RowAggregates(k, kept) ==
    \A n \in 1..Len(ret.columns) :
        ret.columns[n].vals[k]
            = LET vals == ValuesAt(kept, ((n - 1) \div 4) + 1)
                  agg == ret.columns[n].name[2]
              IN  CASE agg = "mean" -> ColMean(vals)
                    [] agg = "std" -> ColStd(vals)
                    [] agg = "min" -> ColMin(vals)
                    [] agg = "max" -> ColMax(vals)

(***************************************************************************)
(* C21: with max_logs_per_window set, the output row of a window that      *)
(* holds more records than that aggregates only the earliest               *)
(* max_logs_per_window records of the window in timestamp order, whatever  *)
(* order the rows arrive in; the row of a window at or below the limit, or *)
(* with no limit set, aggregates all its records.  Stated for the windows  *)
(* that pass the minimum count and the window sizes pandas reads as the    *)
(* configuration does.                                                     *)
(***************************************************************************)
C21_EarliestRecordsKept ==
    (Windowed /\ err = NoError /\ PandasAgrees) =>
        \A k \in 1..Len(ret.index) :
            RecordsIn(ret.index[k]) >= config.min_logs_per_window
            => \E kept \in EarliestOf(MembersOf(ret.index[k]),
                                      IF config.max_logs_per_window = NoneInt
                                      THEN Len(inp.rows)
                                      ELSE config.max_logs_per_window[1]) :
                  RowAggregates(k, kept)

\* C21: two records of one window arrived with the later one first, the
\* limit is one, and the output row holds the earlier record only
C21_Witness ==
    /\ Windowed /\ err = NoError /\ PandasAgrees
    /\ config.max_logs_per_window = Some(1)
    /\ Len(inp.rows) = 2
    /\ inp.rows[1].timestamp > inp.rows[2].timestamp
    /\ inp.rows[1].vals[1] # inp.rows[2].vals[1]
    /\ Len(ret.index) = 1
    /\ RowAggregates(1, {2})

(***************************************************************************)
(* Vocabulary of the claim on the aggregates of a window.                  *)
(***************************************************************************)
\* the population standard deviation of vals (divisor: the number of values)
PopulationStd(vals) ==
    LET m == RDiv(SumSeq(vals), Num(Len(vals)))
        sq == [i \in 1..Len(vals) |-> RMul(RSub(vals[i], m), RSub(vals[i], m))]
    IN  Sqrt(RDiv(SumSeq(sq), Num(Len(vals))))

\* the values of column j of the records the code retains of the window
\* starting at start: its earliest max_logs_per_window ones
RetainedValues(start, j) ==
    LET kept == CHOOSE kept \in EarliestOf(MembersOf(start),
                                           IF config.max_logs_per_window = NoneInt
                                           THEN Len(inp.rows)
                                           ELSE config.max_logs_per_window[1]) :
                    RowAggregates(
                        CHOOSE k \in 1..Len(ret.index) : ret.index[k] = start, kept)
    IN  ValuesAt(kept, j)

(***************************************************************************)
(* C22: for each output window and each feature the aggregated row holds   *)
(* mean, std, min and max of the records retained in the window, std being *)
(* the population standard deviation, so that the std of a window that     *)
(* retains one record is 0.  Stated for the windows that pass the minimum  *)
(* count.  Violated: the std column holds the sample standard deviation,   *)
(* which is missing (NaN) for a single record.                             *)
(***************************************************************************)
C22_PopulationStatistics ==
    (Windowed /\ err = NoError /\ PandasAgrees) =>
        \A k \in 1..Len(ret.index) :
            RecordsIn(ret.index[k]) >= config.min_logs_per_window
            => \A n \in 1..Len(ret.columns) :
                  LET vals == RetainedValues(ret.index[k], ((n - 1) \div 4) + 1)
                      agg == ret.columns[n].name[2]
                  IN  ret.columns[n].vals[k]
                        = CASE agg = "mean" -> ColMean(vals)
                            [] agg = "std" -> PopulationStd(vals)
                            [] agg = "min" -> ColMin(vals)
                            [] agg = "max" -> ColMax(vals)

(***************************************************************************)
(* Vocabulary of the claim on the stride of the windows.                   *)
(***************************************************************************)
StrideSeconds == get_stride_timedelta(config).delta

\* the start points, one stride apart, of the windows that cover timestamp ts
StartsCovering(ts) ==
    {start \in (ts - WindowSeconds + 1)..ts : start >= 0 /\ start % StrideSeconds = 0}

(***************************************************************************)
(* C23: the windows start one stride apart, so every output row is keyed   *)
(* by a start point of the stride and a record belongs to every window     *)
(* that covers its timestamp: each such window that holds at least         *)
(* min_logs_per_window records has a row in the output (several per record *)
(* when the stride is below the window size, one when it equals the window *)
(* size or is unset).  Violated: create_time_windows never reads           *)
(* window_stride; its windows start one window size apart.                 *)
(***************************************************************************)
C23_WindowsAtStride ==
    (Windowed /\ err = NoError /\ PandasAgrees) =>
        /\ \A k \in 1..Len(ret.index) : ret.index[k] % StrideSeconds = 0
        /\ \A k \in 1..Len(inp.rows) :
              \A start \in StartsCovering(inp.rows[k].timestamp) :
                  RecordsIn(start) >= config.min_logs_per_window
                  => \E n \in 1..Len(ret.index) : ret.index[n] = start

(***************************************************************************)
(* C27: for every window_size the configuration accepts,                   *)
(* create_time_windows raises no error the configuration causes (it raises *)
(* only when no window holds min_logs_per_window records) and buckets the  *)
(* records into windows of the length get_window_timedelta returns: every  *)
(* output row is keyed by a multiple of that length, and a record whose    *)
(* window of that length passes the minimum count finds its window in the  *)
(* output.  Violated: pandas reads the raw string, for which hr, sec and   *)
(* day name no frequency and m means month end.                            *)
(***************************************************************************)
C27_WindowSizeReadAsConfigured ==
    Windowed =>
        /\ err # NoError => ~SomeWindowPasses
        /\ err = NoError =>
              /\ \A n \in 1..Len(ret.index) : ret.index[n] % WindowSeconds = 0
              /\ \A k \in 1..Len(inp.rows) :
                    RecordsIn(WindowStart(inp.rows[k].timestamp))
                        >= config.min_logs_per_window
                    => \E n \in 1..Len(ret.index) :
                          ret.index[n] = WindowStart(inp.rows[k].timestamp)

\* ---------------------------------------------------------------------
\* C30: parse_logs on a tabular input and normalize_features leave the
\* caller's table as it was passed: after either call the caller's table
\* still has the values and the timestamp type it had before the call,
\* whether or not the timestamps needed conversion.
C30_CallerTableUnchanged ==
    /\ op = "parse_logs(DataFrame)" => table = inp.logs
    /\ op = "normalize_features" => table = inp

\* ---------------------------------------------------------------------
\* C28: in every reachable state each cached statistics entry supplies the
\* statistic names that the normalization method in effect reads (min and
\* max for minmax, mean and std for zscore), and a normalize_features call
\* never ends in the KeyError of a missing statistic.
NamesRead(method) ==
    IF method = "minmax" THEN {"min", "max"}
    ELSE IF method = "zscore" THEN {"mean", "std"}
    ELSE {}

C28_CachedEntriesFitMethod ==
    /\ built = "ok" =>
          \A column \in DOMAIN feature_stats :
              NamesRead(config.normalization_method) \subseteq DOMAIN feature_stats[column]
    /\ op = "normalize_features" => err # "KeyError"

(***************************************************************************)
(* The pipeline: process, and the statistics files.  An instance is used   *)
(* as test_process_end_to_end and test_feature_stats_persistence use it:   *)
(* logs are processed, the statistics are saved to a file and loaded from  *)
(* one, and a new LogPreprocessor is made with the same configuration.     *)
(***************************************************************************)
\* the number of operations in one behaviour
MaxSteps == 4

\* the fixture sample_logs: five lines one minute apart
sample_logs ==
    <<LogLine.DefaultLine1, LogLine.DefaultLine2,
      <<"2", "0", "2", "4", "-", "0", "3", "-", "1", "5", " ", "1", "0",
        ":", "0", "2", ":", "0", "0", " ", "W", "A", "R", "N", "I", "N",
        "G", " ", "H", "i", "g", "h", " ", "C", "P", "U", " ", "u", "s",
        "a", "g", "e", " ", "d", "e", "t", "e", "c", "t", "e", "d", ":",
        " ", "9", "5", "%">>,
      <<"2", "0", "2", "4", "-", "0", "3", "-", "1", "5", " ", "1", "0",
        ":", "0", "3", ":", "0", "0", " ", "I", "N", "F", "O", " ", "M",
        "e", "m", "o", "r", "y", " ", "u", "s", "a", "g", "e", ":", " ",
        "8", ".", "5", "G", "B", " ", "o", "f", " ", "1", "6", "G", "B",
        " ", "u", "s", "e", "d">>,
      <<"2", "0", "2", "4", "-", "0", "3", "-", "1", "5", " ", "1", "0",
        ":", "0", "4", ":", "0", "0", " ", "D", "E", "B", "U", "G", " ",
        "P", "r", "o", "c", "e", "s", "s", "i", "n", "g", " ", "b", "a",
        "t", "c", "h", " ", "j", "o", "b", " ", "#", "1", "2", "3", "4",
        "5">>
>>

\* Failed with the cache emptied by the failure
Failed_reset(exc, stats) == [exc |-> exc, out |-> NoTable, stats |-> NoStats]

\* a call that raised exc: nothing is returned and the cache is as stats,
\* what the statements before the raise made of it
Failed(exc, stats) == [exc |-> exc, out |-> NoTable, stats |-> stats]

\* lines 264-306: process(logs, log_type) without output_path, stats being
\* self.feature_stats and freq the frequency pandas reads in window_size.
\* logs is a list [lines], a DataFrame [dtype, data] or another value
\* [type]; the result holds the caller's table after the call (logs)
process(logs, log_type, c, stats, freq) ==
    LET frame == "data" \in DOMAIN logs
        \* the seconds from 2024-03-15 00:00:00 to the time t, the form in
        \* which a feature table holds its timestamps
        Days(year, month, day) ==
            LET y == IF month <= 2 THEN year - 1 ELSE year
                era == y \div 400
                yoe == y - era * 400
                doy == (153 * (IF month > 2 THEN month - 3 ELSE month + 9) + 2) \div 5
                          + day - 1
            IN  era * 146097 + yoe * 365 + yoe \div 4 - yoe \div 100 + doy
        Seconds(t) ==
            (Days(t[1], t[2], t[3]) - Days(2024, 3, 15)) * 86400
               + t[4] * 3600 + t[5] * 60 + t[6]
        \* line 297 and the return: normalize_features(windowed_df)
        normalize(windowed, normalized) ==
            IF normalized.exc # NoError THEN Failed(normalized.exc, normalized.stats)
            ELSE [exc |-> NoError,
                  out |-> [index |-> windowed.out.index, columns |-> normalized.out],
                  stats |-> normalized.stats]
        \* line 294: create_time_windows(feature_df)
        window(windowed) ==
            IF windowed.exc # NoError THEN Failed(windowed.exc, stats)
            ELSE normalize(windowed, normalize_features(windowed.out.columns, c, stats))
        \* lines 279-291: one dict of features and one timestamp for each row
        \* of df, and the table of them, its columns in the order in which
        \* the first dict got its keys
        extract(df, pattern) ==
            LET feature_df(features, columns) ==
                    [columns |-> columns,
                     rows |-> SubSeq([i \in 1..Len(df) |->
                                         [timestamp |-> Seconds(df[i].timestamp),
                                          vals |-> SubSeq([j \in 1..Len(columns) |->
                                                              Num(features[i][columns[j]])],
                                                          1, Len(columns))]],
                                     1, Len(df)),
                     datetime |-> df # <<>>]
                \* line 290: pd.DataFrame(features)
                from_dicts(features) ==
                    feature_df(features,
                               IF df = <<>> THEN <<>>
                               ELSE SelectSeq(<<"log_length", "word_count", "numeric_count",
                                                "special_char_count", "uppercase_count",
                                                "lowercase_count">>,
                                              LAMBDA n : n \in DOMAIN features[1])
                                    \o (IF c.pattern_features
                                        THEN [j \in 1..Len(c.custom_patterns.items) |->
                                                 "pattern_" \o c.custom_patterns.items[j][1]]
                                        ELSE <<>>))
            IN  IF \E i \in 1..Len(df) : pattern[i].exc # NoError
                THEN Failed("re.error", stats)
                ELSE window(create_time_windows(
                         from_dicts(SubSeq([i \in 1..Len(df) |->
                                               pattern[i].features
                                                  @@ extract_basic_features(df[i].message, c)],
                                           1, Len(df))),
                         c, freq))
        \* line 277: parse_logs(logs, log_type), the rows of its table
        parse(parsed) ==
            LET result ==
                    IF parsed.exc # NoError THEN Failed(parsed.exc, stats)
                    ELSE extract(parsed.out,
                                  SubSeq([i \in 1..Len(parsed.out) |->
                                             extract_pattern_features(
                                                 parsed.out[i].message, c)],
                                         1, Len(parsed.out)))
            IN  [exc |-> result.exc, out |-> result.out, stats |-> result.stats,
                 logs |-> IF frame THEN parsed.logs ELSE logs]
        iterrows(r) ==
            [exc |-> r.exc, logs |-> r.logs,
             out |-> IF r.exc # NoError THEN <<>>
                     ELSE [i \in 1..Len(r.out.data.timestamp) |->
                              [timestamp |-> r.out.data.timestamp[i],
                               message |-> r.out.data.message[i]]]]
    IN  parse(IF "lines" \in DOMAIN logs THEN parse_logs(logs.lines, log_type, c)
               ELSE IF ~frame THEN [exc |-> "ValueError", out |-> <<>>]
               ELSE iterrows(parse_logs_DataFrame(
                             logs, log_type, c,
                             IF "timestamp" \in DOMAIN logs.data /\ logs.dtype = "object"
                             THEN to_datetime(logs.data.timestamp,
                                              IF log_type = "apache"
                                              THEN c.apache_timestamp_format
                                              ELSE c.timestamp_format)
                             ELSE [exc |-> NoError, val |-> <<>>])))

\* lines 308-310: the content of the file that save_feature_stats writes,
\* as the map read_json makes of it.  pd.DataFrame(feature_stats) has one
\* column for each entry and one row for each statistic name of any entry,
\* NaN where an entry lacks the name; to_json writes a column label that is
\* no string as its str() (a key (column, aggregate) becomes the one text
\* "('column', 'aggregate')", held here as a tuple of that one text), where
\* two labels give one text the later entry stands, and a value is written
\* with ten decimal places: a number with no more places is kept, any
\* other is rounded (marked by a third component 3 or 4 in place of 1 or 2)
to_json(stats) ==
    LET str(key) ==
            IF Len(key) = 2 THEN <<"('" \o key[1] \o "', '" \o key[2] \o "')">>
            ELSE key
        names == UNION {DOMAIN stats[k] : k \in DOMAIN stats}
        entry(label) ==
            IF \E k \in DOMAIN stats : Len(k) = 2 /\ str(k) = label
            THEN stats[CHOOSE k \in DOMAIN stats : Len(k) = 2 /\ str(k) = label]
            ELSE stats[label]
        RECURSIVE Strip(_, _, _)
        Strip(d, p, k) ==
            IF k = 0 \/ d % p # 0 THEN d ELSE Strip(d \div p, p, k - 1)
        double(v) ==
            IF ~IsNumber(v) THEN NaN
            ELSE IF v[3] > 2 THEN v
            ELSE LET q == FromSquare(SignedSquare(v)[1], SignedSquare(v)[2])
                 IN  IF q[3] = 1 /\ Strip(Strip(q[2], 2, 10), 5, 10) = 1 THEN v
                     ELSE <<v[1], v[2], v[3] + 2>>
    IN  [label \in {str(k) : k \in DOMAIN stats} |->
            [n \in names |->
                IF n \in DOMAIN entry(label) THEN double(entry(label)[n]) ELSE NaN]]

\* load_feature_stats with the loaded entries added to those of the cache
load_feature_stats_merge(file, stats, raised) ==
    IF ~file.exists THEN [exc |-> raised, stats |-> stats]
    ELSE [exc |-> NoError, stats |-> file.data @@ stats]

\* lines 312-315: load_feature_stats(path) on the file file; pd.read_json
\* of a path that names no file raises (raised is the exception of the
\* pandas release: FileNotFoundError or ValueError) before the assignment
load_feature_stats(file, stats, raised) ==
    IF ~file.exists THEN [exc |-> raised, stats |-> stats]
    ELSE [exc |-> NoError, stats |-> file.data]

\* LogPreprocessor(PreprocessingConfig(**args)) with the configuration of
\* the tests' fixture config, with either normalization method and a
\* minimum of one or two logs for a window
InitPipeline ==
    /\ args \in {a \in
              {[DefaultArgs EXCEPT
                   !.window_size = <<"2", "m", "i", "n">>,
                   !.basic_features = <<"log_length", "word_count", "numeric_count">>,
                   !.custom_patterns = Dict(<<<<"error", "error|failed|failure">>,
                                              <<"warning", "warning|high|critical">>,
                                              <<"metrics", "\\d+%|\\d+GB">>>>),
                   !.normalization_method = method,
                   !.min_logs_per_window = n] :
                  method \in {"minmax", "zscore"}, n \in 1..MaxCount} :
                   __post_init__(a) = NoError}
    /\ config = args
    /\ built = "ok"
    /\ op = "none"
    /\ err = NoError
    /\ inp = [log_type |-> "none"]
    /\ ret = NoTable
    /\ feature_stats = NoStats
    /\ prev_stats = NoStats
    /\ calls = 0
    /\ table = NoTable
    /\ files = NoFiles

\* preprocessor.process(logs, log_type)
Process(logs, log_type) ==
    /\ built = "ok"
    /\ calls < MaxSteps
    /\ calls' = calls + 1
    /\ \E freq \in PandasFreq(config.window_size) :
          \E r \in {process(logs, log_type, config, feature_stats, freq)} :
              /\ err' = r.exc
              /\ ret' = r.out
              /\ feature_stats' = r.stats
              /\ table' = IF "data" \in DOMAIN logs THEN r.logs ELSE table
    /\ prev_stats' = feature_stats
    /\ inp' = [logs |-> logs, log_type |-> log_type]
    /\ op' = "process"
    /\ UNCHANGED <<args, config, built, files>>

\* preprocessor.save_feature_stats(path)
SaveFeatureStats(path) ==
    /\ built = "ok"
    /\ calls < MaxSteps
    /\ calls' = calls + 1
    /\ files' = [files EXCEPT ![path] = [exists |-> TRUE, data |-> to_json(feature_stats)]]
    /\ err' = NoError
    /\ ret' = NoTable
    /\ prev_stats' = feature_stats
    /\ inp' = [path |-> path]
    /\ op' = "save_feature_stats"
    /\ UNCHANGED <<args, config, built, feature_stats, table>>

\* preprocessor.load_feature_stats(path)
LoadFeatureStats(path) ==
    /\ built = "ok"
    /\ calls < MaxSteps
    /\ calls' = calls + 1
    /\ \E raised \in {"FileNotFoundError", "ValueError"} :
          LET r == load_feature_stats(files[path], feature_stats, raised)
          IN  /\ err' = r.exc
              /\ feature_stats' = r.stats
    /\ ret' = NoTable
    /\ prev_stats' = feature_stats
    /\ inp' = [path |-> path]
    /\ op' = "load_feature_stats"
    /\ UNCHANGED <<args, config, built, table, files>>

\* preprocessor = LogPreprocessor(preprocessor.config): a new instance with
\* the same configuration and an empty cache takes the place of the old one
NewPreprocessor ==
    /\ built = "ok"
    /\ calls < MaxSteps
    /\ calls' = calls + 1
    /\ feature_stats' = NoStats
    /\ err' = NoError
    /\ ret' = NoTable
    /\ prev_stats' = feature_stats
    /\ inp' = [log_type |-> "none"]
    /\ op' = "LogPreprocessor"
    /\ UNCHANGED <<args, config, built, table, files>>

\* the logs handed to process: lists of the fixture's lines (none, the
\* first, all five), the table without a message column and the table of
\* MaxRows rows whose timestamps are times, and a number
NextPipeline ==
    \/ \E logs \in
              {[lines |-> SubSeq(sample_logs, 1, n)] : n \in {0, 1, 5}}
              \cup {t \in LogTables :
                       \/ DOMAIN t.data = {"timestamp"}
                       \/ DOMAIN t.data = {"timestamp", "message"} /\ t.dtype = "datetime64[ns]"}
              \cup {[type |-> "int"]} :
          Process(logs, "default")
    \/ \E path \in DOMAIN files : SaveFeatureStats(path)
    \/ \E path \in DOMAIN files : LoadFeatureStats(path)
    \/ NewPreprocessor

SpecPipeline == InitPipeline /\ [][NextPipeline]_vars

\* ---------------------------------------------------------------------
\* C24: process on the five lines of sample_logs (one minute apart, from
\* 10:00:00 to 10:04:00) with window size "2min" and min_logs_per_window = 1
\* returns exactly three rows, keyed by the window starts 10:00, 10:02 and
\* 10:04 in ascending order; each row has a mean, std, min and max column
\* for every enabled feature, and every window holds a line.
SampleProcessed ==
    /\ op = "process"
    /\ inp.logs = [lines |-> sample_logs]
    /\ config.min_logs_per_window = 1

AggregateColumns(c) == FeatureKeys(c) \X {"mean", "std", "min", "max"}

Loaded == op = "load_feature_stats" /\ err = NoError

C25_LoadReplacesCache ==
    Loaded => feature_stats = files[inp.path].data

C25_Witness ==
    /\ Loaded
    /\ prev_stats # NoStats
    /\ feature_stats # NoStats
    /\ DOMAIN prev_stats \cap DOMAIN feature_stats = {}

\* ---------------------------------------------------------------------
\* C26: the statistics round-trip through a file.  Once an instance that
\* processed data has saved its statistics, a fresh instance with the same
\* configuration that loads the file holds the same map (the same column
\* keys, the same statistic names, the same values up to the precision of
\* the file), and normalizing a column with the fresh instance gives what
\* the original instance gives.
Exact(v) == IF v[3] > 2 THEN <<v[1], v[2], v[3] - 2>> ELSE v

Close(a, b) ==
    \/ ~IsNumber(a) /\ ~IsNumber(b)
    \/ /\ IsNumber(a) /\ IsNumber(b)
       /\ ~Less(Exact(a), Exact(b)) /\ ~Less(Exact(b), Exact(a))

SameStats(a, b) ==
    /\ DOMAIN a = DOMAIN b
    /\ \A k \in DOMAIN a \cap DOMAIN b :
          /\ DOMAIN a[k] = DOMAIN b[k]
          /\ \A n \in DOMAIN a[k] \cap DOMAIN b[k] : Close(a[k][n], b[k][n])

SavedAfterProcessing ==
    /\ op = "save_feature_stats"
    /\ feature_stats # NoStats
    /\ \A k \in DOMAIN feature_stats : Len(k) = 2

FreshLoaded == load_feature_stats(files[inp.path], NoStats, "ValueError").stats

C26_StatsRoundTrip ==
    SavedAfterProcessing =>
        /\ SameStats(FreshLoaded, feature_stats)
        /\ \A k \in DOMAIN feature_stats :
              LET df == <<[name |-> k, vals |-> <<Zero>>]>>
              IN  normalize_features(df, config, FreshLoaded).out
                     = normalize_features(df, config, feature_stats).out

\* ---------------------------------------------------------------------
\* C29: a process call that fails on the shape of its input or because no
\* window is valid leaves feature_stats exactly as it was before the call;
\* a process call changes the cache only if it returns a table.
ProcessFailed == op = "process" /\ err \in {"ValueError", "TypeError"}

C29_FailedProcessKeepsCache ==
    /\ ProcessFailed => feature_stats = prev_stats
    /\ op = "process" /\ feature_stats # prev_stats => err = NoError /\ ret # NoTable

C29_Witness ==
    /\ ProcessFailed
    /\ inp.logs = [lines |-> SubSeq(sample_logs, 1, 1)]
    /\ config.min_logs_per_window = 2
    /\ prev_stats # NoStats
    /\ feature_stats = prev_stats
====
